---------------------------- MODULE Spec2Model ----------------------------
(***************************************************************************)
(* A model of the MCP gateway:                                             *)
(*   - the resilient proxy wrapper of mcp_proxy/proxy_server.py            *)
(*     (retry loop, per-call deadline, out-of-band error queue, inflight   *)
(*     semaphore), specification SpecProxy;                                *)
(*   - the transport client loop of mcp_proxy/streamablehttp_client.py     *)
(*     and mcp_proxy/sse_client.py, specification SpecClient;              *)
(*   - the server manager of mcp_foxxy_bridge/server_manager.py,           *)
(*     specification SpecManager;                                          *)
(*   - the configuration loaders of mcp_proxy/config_loader.py and         *)
(*     mcp_foxxy_bridge/config_loader.py, specification SpecLoad.          *)
(* Times are in tenths of a second.                                        *)
(***************************************************************************)
EXTENDS Integers, Sequences, FiniteSets, TLC

VARIABLES
    cfg,            \* attributes read off remote_app by create_proxy_server
    ops,            \* one record per proxied request being handled
    sem_value,      \* semaphore._value: units still available
    error_queue,    \* the session's _http_error_queue (statuses of queued errors)
    initialized,    \* initialize has completed on the current transport
    slot,           \* _ReconnectableSession._session: "open", or "none" (closed, not reopened)
    progress,       \* forwarded progress notifications in progress
    orphans,        \* call / queue-getter tasks left running by a cancelled caller
    cli,            \* run_streamablehttp_client / run_sse_client: the connect loop
    mgr,            \* ServerManager: start(), stop(), health-check task
    servers,        \* ServerManager.servers: one ManagedServer row per backend
    load,           \* a call of a configuration loader: its input and its outcome
    http,           \* the HTTP client's hooks: request_state and the requests in flight
    rs              \* a _ReconnectableSession: its fields and the transports that are open

vars == <<cfg, ops, sem_value, error_queue, initialized, slot, progress, orphans,
          cli, mgr, servers, load, http, rs>>

proxyVars == <<cfg, ops, sem_value, error_queue, initialized, slot, progress, orphans>>
\* what the steps of the proxy leave alone
otherVars == <<cli, mgr, servers, load, http, rs>>

-----------------------------------------------------------------------------
(* Bounds of the model *)

\* proxied requests handled concurrently
NumOps == 2
\* largest retry_attempts tried
MaxRetry == 2
\* largest _proxy_max_inflight tried
MaxInflightTried == 2
\* capacity given to the error queue (asyncio.Queue(maxsize=...))
QueueMax == 1
\* progress notifications forwarded concurrently
MaxProgress == 1
\* retry_attempts of the session serving concurrent requests
GateRetry == 1
\* requests of the HTTP client in flight at once
MaxInFlight == 2
\* transports a _ReconnectableSession opens in a run
MaxTransports == 5
\* backends configured in the bridge
NumServers == 2
\* largest failover.max_failures tried
MaxFailuresTried == 2
MaxPriority == 2
\* entries of mcpServers in a configuration file
MaxEntries == 2

Ops == 1..NumOps

-----------------------------------------------------------------------------
(* Program constants *)

\* backoff_s = 0.5
BackoffInitial == 5
\* min(5.0, backoff_s * 2)
BackoffCap == 50
\* _retry_sleep_for: 0.2 on a session error
SessionErrorSleep == 2
\* status is None (no response on the error)
NoStatus == 0

-----------------------------------------------------------------------------
(* Exceptions and results of the backend *)

SessionNotFoundCode == 0 - 32001
SessionTerminatedCode == 32600
NoCode == 0

\* An exception object: its class, the status of its response (HTTPStatusError),
\* the code of its error (McpError), the fragments str(exc) contains, and the
\* exceptions it holds: the members of a group, or its __cause__/__context__.
Exc(cls, status, code, text, children) ==
    [cls |-> cls, status |-> status, code |-> code, text |-> text,
     children |-> children]

Http(status, text) == Exc("HTTPStatusError", status, NoCode, text, <<>>)
Mcp(code, text) == Exc("McpError", NoStatus, code, text, <<>>)
Plain(text) == Exc("Exception", NoStatus, NoCode, text, <<>>)
\* httpx.TimeoutException / httpx.NetworkError
HttpxTimeout(text) == Exc("HttpxTimeout", NoStatus, NoCode, text, <<>>)
\* the builtin TimeoutError (asyncio.TimeoutError is the same class)
TimeoutError(text) == Exc("TimeoutError", NoStatus, NoCode, text, <<>>)
Group(text, members) == Exc("ExceptionGroup", NoStatus, NoCode, text, members)
Chained(text, cause) == Exc("Exception", NoStatus, NoCode, text, <<cause>>)

\* raised by _ReconnectableSession.__getattr__ / by a failing initialize
AttributeError == Plain({"initialize"})
\* AttributeError(name) for the operation a handler of this kind calls
MissingAttribute(kind) == Plain({IF kind = "tool" THEN "call_tool" ELSE "get_prompt"})
\* raised by _await_remote_call when the deadline fires
CallTimeoutError == TimeoutError({"timed out after"})
NoErr == Exc("None", NoStatus, NoCode, {}, <<>>)

\* The exceptions a backend call is made to raise.
ExcMenu ==
    { Http(400, {}), Http(404, {}), Http(500, {}), Http(502, {}), Http(503, {}),
      Http(404, {"Session not found"}), Http(500, {"Session terminated"}),
      HttpxTimeout({"rt"}), TimeoutError({"Session terminated"}),
      Mcp(SessionNotFoundCode, {"Session not found"}),
      Mcp(SessionNotFoundCode, {"gone"}),
      Mcp(SessionTerminatedCode, {"Session terminated"}),
      Mcp(SessionTerminatedCode, {"Invalid request"}),
      Plain({"Session not found", "-32001"}), Plain({"boom"}),
      Group({"wrapped"}, <<Plain({"Session not found", "-32001"})>>),
      Group({"wrapped"}, <<Http(404, {})>>),
      Group({"wrapped"}, <<Http(500, {})>>),
      Group({"wrapped"}, <<Plain({"boom"}), Http(503, {})>>),
      Group({"Session not found"}, <<Plain({"boom"})>>),
      Group({"wrapped"}, <<HttpxTimeout({"rt"})>>),
      Group({"wrapped"}, <<Group({"inner"}, <<Mcp(SessionNotFoundCode, {"gone"})>>)>>),
      Chained({"call failed"}, Mcp(SessionTerminatedCode, {"Session terminated"})),
      Chained({"call failed"}, Http(404, {})) }

\* A CallToolResult: isError and its content items.
ToolResult(isError, content) == [isError |-> isError, content |-> content]
Item(type, text) == [type |-> type, text |-> text]

ResultMenu ==
    { ToolResult(FALSE, <<>>),
      ToolResult(TRUE, <<Item("text", {"Mcp error:", "Session terminated"})>>),
      ToolResult(TRUE, <<Item("text", {"Session not found", "-32001"})>>),
      ToolResult(TRUE, <<Item("text", {"disk full"})>>),
      ToolResult(TRUE, <<Item("image", {"Session not found"})>>),
      ToolResult(FALSE, <<Item("text", {"Session not found"})>>) }

\* The short menus: one exception of each class the except clauses tell apart.
BriefExcMenu ==
    { Http(404, {}), Http(500, {}), HttpxTimeout({"rt"}),
      Plain({"Session not found", "-32001"}) }

BriefResultMenu ==
    { ToolResult(FALSE, <<>>),
      ToolResult(TRUE, <<Item("text", {"Session not found", "-32001"})>>) }

\* The statuses of the responses the HTTP client sees.
StatusMenu == {200, 400, 404, 500, 503}

OkResult == ToolResult(FALSE, <<>>)
NoResult == ToolResult(FALSE, <<Item("none", {})>>)

-----------------------------------------------------------------------------
(* proxy_server.py: classification of a failed attempt *)

Max(a, b) == IF a >= b THEN a ELSE b
Min(a, b) == IF a <= b THEN a ELSE b

\* max_attempts = 1 + max(0, getattr(remote_app, "_retry_attempts", 0))
MaxAttempts == 1 + Max(0, cfg.retry_attempts)

\* _iter_exceptions: the members of a group (the group itself is not yielded),
\* else the exception followed by its cause / context chain.
RECURSIVE IterExceptions(_), IterAll(_)
IterExceptions(exc) ==
    IF exc.cls = "ExceptionGroup"
    THEN IterAll(exc.children)
    ELSE <<exc>> \o IterAll(exc.children)

IterAll(excs) ==
    IF excs = <<>> THEN <<>>
    ELSE IterExceptions(Head(excs)) \o IterAll(Tail(excs))

\* _is_retryable_status taking every 4xx and 5xx.
IsRetryableStatusAny5xx(status) ==
    IF status = NoStatus THEN FALSE
    ELSE 400 <= status /\ status < 600

IsRetryableStatus(status) ==
    IF status = NoStatus THEN FALSE
    ELSE (400 <= status /\ status < 500) \/ status = 503

ShouldRebuildSession(status) == status = 404

RetrySleepFor(status, session_error) ==
    IF status = 404 THEN 0
    ELSE IF session_error THEN SessionErrorSleep
    ELSE 0

HasSessionMarker(text) ==
    \/ "Session not found" \in text
    \/ "-32001" \in text
    \/ "Session terminated" \in text

SessionErrorInException(err) ==
    \E i \in 1..Len(IterExceptions(err)) :
        LET leaf == IterExceptions(err)[i] IN
        \/ /\ leaf.cls = "McpError"
           /\ \/ leaf.code = SessionNotFoundCode
              \/ leaf.code = SessionTerminatedCode /\ "Session terminated" \in leaf.text
        \/ HasSessionMarker(leaf.text)

\* _call_tool._retryable_status_in_error: the status of the first nested
\* HTTPStatusError with a retryable status, else None.
RetryableStatusInError(err) ==
    LET leaves == IterExceptions(err)
        hits == { i \in 1..Len(leaves) :
                    leaves[i].cls = "HTTPStatusError" /\ IsRetryableStatus(leaves[i].status) }
    IN IF hits = {} THEN NoStatus
       ELSE leaves[CHOOSE i \in hits : \A j \in hits : i <= j].status

\* _call_tool._is_session_error_result
IsSessionErrorResult(result) ==
    /\ result.isError
    /\ \E i \in 1..Len(result.content) :
          /\ result.content[i].type = "text"
          /\ HasSessionMarker(result.content[i].text)

\* except (httpx.TimeoutException, httpx.NetworkError, TimeoutError)
IsTimeoutClass(exc) == exc.cls \in {"HttpxTimeout", "TimeoutError"}

\* min(5.0, backoff_s * 2)
NextBackoff(backoff_s) == Min(BackoffCap, backoff_s * 2)

-----------------------------------------------------------------------------
(* proxy_server.py: one proxied request *)

\* The log of a request (calls, inits, rebuilds, fresh, err, res, raised) is
\* kept when cfg.trace is set; it is not state of the program.
Log(x, blank) == IF cfg.trace THEN x ELSE blank

\* The arguments of a request: absent (None), or an object with these keys.
MakeArguments(present, keys) == [present |-> present, keys |-> keys]
NoArguments == MakeArguments(FALSE, {})
EmptyArguments == MakeArguments(TRUE, {})
ArgumentMenu == { NoArguments, EmptyArguments, MakeArguments(TRUE, {"k"}) }

\* a handler that forwards an empty object whatever the request carries
ToolArgumentsEmpty(a) == EmptyArguments

\* _call_tool: `req.params.arguments or {}`
ToolArguments(a) == IF a.present /\ a.keys # {} THEN a ELSE EmptyArguments

\* What the handler hands to the backend operation: _call_tool normalises
\* the arguments, the handlers on _call_remote pass the parameters on.
ForwardArguments(kind, a) == IF kind = "tool" THEN ToolArguments(a) ELSE a

\* The state of a handler at construction: attempts = 0, backoff_s = 0.5.
NewOp ==
    [pc |-> "idle",         \* idle, acquire, calling, cancelling, recover, sleep, done
     kind |-> "none",       \* "tool": _call_tool; "other": a handler using _call_remote
     attempts |-> 0,
     backoff_s |-> BackoffInitial,
     calls |-> 0,           \* backend invocations of the operation
     inits |-> 0,           \* remote_app.initialize() calls issued
     rebuilds |-> 0,        \* remote_app.rebuild() calls issued
     task |-> "none",       \* call_task: none, running, cancelling
     why |-> "",            \* why the call task is being cancelled: timeout, queue
     qerr |-> NoErr,        \* the error the queue task returned
     rec |-> "",            \* the recovery primitive in progress: init, rebuild, fallback
     cause |-> "",          \* the branch retrying: status, timeout, session, result
     st |-> NoStatus,       \* the status that branch saw
     err |-> NoErr,         \* the exception of the last failed attempt
     fresh |-> FALSE,       \* an attempt was issued before initialize completed
     sleep_s |-> 0,         \* the delay of the asyncio.sleep in progress
     cancel_req |-> FALSE,  \* the caller has cancelled the request
     outcome |-> "none",    \* result, synthetic, raised, cancelled, nothing
     res |-> NoResult,      \* the result returned
     raised |-> NoErr,      \* the exception raised (or summarised in the synthetic result)
     args |-> NoArguments,  \* the arguments of the request
     sent |-> NoArguments]  \* the arguments of the last backend invocation

\* Surface without _call_tool's outer `except Exception`.
SurfaceUncaught(o, e) ==
    [o EXCEPT !.pc = "done", !.outcome = "raised", !.raised = Log(e, NoErr)]

\* `raise` out of the retry loop: _call_remote lets it reach the caller,
\* _call_tool's outer `except Exception` turns it into an is_error result
\* whose text is str(e).
Surface(o, e) ==
    [o EXCEPT !.pc = "done",
              !.outcome = IF o.kind = "tool" THEN "synthetic" ELSE "raised",
              !.raised = Log(e, NoErr)]

\* Entering a recovery primitive (an await outside `async with semaphore`).
Recover(o, rec, cause, status) ==
    [o EXCEPT !.pc = "recover", !.rec = rec, !.cause = cause, !.st = status,
              !.inits = Log(IF rec = "init" THEN @ + 1 ELSE @, 0),
              !.rebuilds = Log(IF rec = "rebuild" THEN @ + 1 ELSE @, 0)]

\* _rebuild_or_initialize rebuilding for every status
RebuildOrInitializeAnyStatus(o, status) ==
    IF cfg.has_rebuild
    THEN Recover(o, "rebuild", "status", status)
    ELSE Recover(o, "init", "status", status)

\* _rebuild_or_initialize up to its first await
RebuildOrInitialize(o, status) ==
    IF ShouldRebuildSession(status) /\ cfg.has_rebuild
    THEN Recover(o, "rebuild", "status", status)
    ELSE Recover(o, "init", "status", status)

\* _rebuild_or_initialize_timeout up to its first await
RebuildOrInitializeTimeout(o) ==
    IF cfg.has_rebuild
    THEN Recover(o, "rebuild", "timeout", NoStatus)
    ELSE Recover(o, "init", "timeout", NoStatus)

\* except httpx.HTTPStatusError (the same in _call_remote and _call_tool)
OnHttpStatusError(o, e) ==
    LET o1 == [o EXCEPT !.attempts = @ + 1, !.err = Log(e, NoErr)] IN
    IF ~IsRetryableStatus(e.status) \/ o1.attempts >= MaxAttempts
    THEN Surface(o1, e)
    ELSE RebuildOrInitialize(o1, e.status)

\* OnTimeout with `attempts > max_attempts` as its budget test.
OnTimeoutOffByOne(o, e) ==
    LET o1 == [o EXCEPT !.attempts = @ + 1, !.err = Log(e, NoErr)] IN
    IF o1.attempts > MaxAttempts
    THEN Surface(o1, e)
    ELSE RebuildOrInitializeTimeout(o1)

\* except (httpx.TimeoutException, httpx.NetworkError, TimeoutError)
OnTimeout(o, e) ==
    LET o1 == [o EXCEPT !.attempts = @ + 1, !.err = Log(e, NoErr)] IN
    IF o1.attempts >= MaxAttempts
    THEN Surface(o1, e)
    ELSE RebuildOrInitializeTimeout(o1)

\* OnSessionError looking only at str(exc) of the exception caught.
OnSessionErrorTopOnly(o, e) ==
    IF HasSessionMarker(e.text) /\ o.attempts + 1 < MaxAttempts
    THEN Recover([o EXCEPT !.attempts = @ + 1, !.err = Log(e, NoErr)],
                 "init", "session", NoStatus)
    ELSE Surface([o EXCEPT !.err = Log(e, NoErr)], e)

\* the session-error part of `except Exception`
OnSessionError(o, e) ==
    IF SessionErrorInException(e) /\ o.attempts + 1 < MaxAttempts
    THEN Recover([o EXCEPT !.attempts = @ + 1, !.err = Log(e, NoErr)],
                 "init", "session", NoStatus)
    ELSE Surface([o EXCEPT !.err = Log(e, NoErr)], e)

\* The except clauses of _call_remote's loop.
HandleRemote(o, e) ==
    IF e.cls = "HTTPStatusError" THEN OnHttpStatusError(o, e)
    ELSE IF IsTimeoutClass(e) THEN OnTimeout(o, e)
    ELSE OnSessionError(o, e)

\* The except clauses of _call_tool's inner try.
HandleTool(o, e) ==
    IF e.cls = "HTTPStatusError" THEN OnHttpStatusError(o, e)
    ELSE IF IsTimeoutClass(e) THEN OnTimeout(o, e)
    ELSE LET status == RetryableStatusInError(e) IN
         IF status # NoStatus /\ o.attempts + 1 < MaxAttempts
         THEN RebuildOrInitialize([o EXCEPT !.attempts = @ + 1, !.err = Log(e, NoErr)],
                                  status)
         ELSE OnSessionError(o, e)

Handle(o, e) == IF o.kind = "tool" THEN HandleTool(o, e) ELSE HandleRemote(o, e)

\* `continue`: _call_remote loops `while True`, _call_tool `while attempts <
\* max_attempts` and returns nothing when the condition fails.
Continue(o) ==
    IF o.kind = "tool" /\ ~(o.attempts < MaxAttempts)
    THEN [o EXCEPT !.pc = "done", !.outcome = "nothing"]
    ELSE [o EXCEPT !.pc = "acquire"]

\* What follows a completed recovery: the sleep of the branch and the backoff.
AfterRecovery(o) ==
    LET s == IF o.cause = "status" THEN RetrySleepFor(o.st, FALSE)
             ELSE IF o.cause = "session" THEN RetrySleepFor(NoStatus, TRUE)
             ELSE 0
        sleep_s == IF s # 0 THEN s ELSE o.backoff_s
        backoff == IF o.cause = "status" /\ o.st = 404 THEN o.backoff_s
                   ELSE NextBackoff(o.backoff_s)
        o1 == [o EXCEPT !.rec = "", !.cause = "", !.st = NoStatus,
                        !.sleep_s = sleep_s, !.backoff_s = backoff]
    IN IF sleep_s # 0 THEN [o1 EXCEPT !.pc = "sleep"] ELSE Continue(o1)

\* a remote call is running for the request (its attempt, or its recovery)
CallRunning(o) == o.pc \in {"calling", "cancelling"}
Recovering(o) == o.pc = "recover"

\* _await_remote_call runs the call as a task beside the queue and the deadline
TaskMode == cfg.has_queue \/ cfg.has_timeout

-----------------------------------------------------------------------------
(* proxy_server.py: the steps of a proxied request, one per await *)

SetOp(p, o) == ops' = [ops EXCEPT ![p] = o]

Excs == IF cfg.trace THEN ExcMenu ELSE BriefExcMenu
Results == IF cfg.trace THEN ResultMenu ELSE BriefResultMenu
Statuses == IF cfg.trace THEN StatusMenu ELSE {404}
Arguments == IF cfg.payloads THEN ArgumentMenu ELSE {NoArguments}

\* The exceptions initialize() or rebuild() is made to raise.
RecoveryExcMenu == { Plain({"boom"}), Http(503, {}), AttributeError }
RecoveryExcs == IF cfg.trace THEN RecoveryExcMenu ELSE {AttributeError}

\* A request arrives: a CallToolRequest (_call_tool) or one of the requests
\* served through _call_remote.
Start(p, kind, a) ==
    /\ p <= cfg.nops
    /\ ops[p].pc = "idle"
    /\ SetOp(p, Continue([ops[p] EXCEPT !.kind = kind, !.args = Log(a, NoArguments)]))
    /\ UNCHANGED otherVars
    /\ UNCHANGED <<cfg, slot, sem_value, error_queue, initialized, progress, orphans>>

\* `async with semaphore`, _maybe_force_reinit (nothing sets force_reinit),
\* _drain_error_queue, and the call is issued.
Acquire(p) ==
    /\ ops[p].pc = "acquire"
    /\ sem_value > 0
    /\ slot = "open"
    /\ sem_value' = sem_value - 1
    /\ error_queue' = <<>>
    /\ SetOp(p, [ops[p] EXCEPT !.pc = "calling", !.task = "running",
                               !.calls = Log(@ + 1, 0),
                               !.sent = Log(ForwardArguments(ops[p].kind, ops[p].args),
                                            NoArguments),
                               !.fresh = Log(@ \/ ~initialized, FALSE)])
    /\ UNCHANGED otherVars
    /\ UNCHANGED <<cfg, slot, initialized, progress, orphans>>

\* The call is made while _ReconnectableSession._session is None: the lambda
\* handed to _await_remote_call reads remote_app.<operation>, __getattr__
\* raises AttributeError, and the except clauses of the handler see it. The
\* semaphore is taken and given back; the backend is not invoked.
CallWithoutSession(p) ==
    /\ ops[p].pc = "acquire"
    /\ sem_value > 0
    /\ slot = "none"
    /\ error_queue' = <<>>
    /\ SetOp(p, Handle(ops[p], MissingAttribute(ops[p].kind)))
    /\ UNCHANGED otherVars
    /\ UNCHANGED <<cfg, slot, sem_value, initialized, progress, orphans>>

\* The backend answers the call; _call_tool looks for a session-loss result.
CallReturns(p, r) ==
    LET o == [ops[p] EXCEPT !.task = "none"] IN
    /\ o.pc = "calling"
    /\ o.kind = "other" => r = OkResult
    /\ sem_value' = sem_value + 1
    /\ IF o.kind = "tool" /\ IsSessionErrorResult(r) /\ o.attempts + 1 < MaxAttempts
       THEN SetOp(p, Recover([o EXCEPT !.attempts = @ + 1], "init", "result", NoStatus))
       ELSE SetOp(p, [o EXCEPT !.pc = "done", !.outcome = "result",
                                !.res = Log(r, NoResult)])
    /\ UNCHANGED otherVars
    /\ UNCHANGED <<cfg, slot, error_queue, initialized, progress, orphans>>

\* The backend call raises.
CallRaises(p, e) ==
    /\ ops[p].pc = "calling"
    /\ sem_value' = sem_value + 1
    /\ SetOp(p, Handle([ops[p] EXCEPT !.task = "none"], e))
    /\ UNCHANGED otherVars
    /\ UNCHANGED <<cfg, slot, error_queue, initialized, progress, orphans>>

\* DeadlineFires raising TimeoutError without awaiting the cancelled task.
DeadlineFiresNoAwait(p) ==
    /\ cfg.has_timeout
    /\ ops[p].pc = "calling"
    /\ sem_value' = sem_value + 1
    /\ SetOp(p, Handle([ops[p] EXCEPT !.task = "cancelling"], CallTimeoutError))
    /\ UNCHANGED otherVars
    /\ UNCHANGED <<cfg, slot, error_queue, initialized, progress, orphans>>

\* asyncio.wait returns with nothing done: the call task is cancelled and awaited.
DeadlineFires(p) ==
    /\ cfg.has_timeout
    /\ ops[p].pc = "calling"
    /\ SetOp(p, [ops[p] EXCEPT !.pc = "cancelling", !.task = "cancelling",
                               !.why = "timeout"])
    /\ UNCHANGED otherVars
    /\ UNCHANGED <<cfg, slot, sem_value, error_queue, initialized, progress, orphans>>

\* The queue task got an error: the call task is cancelled and awaited.
QueueFires(p) ==
    /\ cfg.has_queue
    /\ ops[p].pc = "calling"
    /\ error_queue # <<>>
    /\ error_queue' = Tail(error_queue)
    /\ SetOp(p, [ops[p] EXCEPT !.pc = "cancelling", !.task = "cancelling",
                               !.why = "queue",
                               !.qerr = Http(Head(error_queue), {"Retryable HTTP status"})])
    /\ UNCHANGED otherVars
    /\ UNCHANGED <<cfg, slot, sem_value, initialized, progress, orphans>>

\* CancelDone raising TimeoutError whatever ended the wait.
CancelDoneAsTimeout(p) ==
    /\ ops[p].pc = "cancelling"
    /\ sem_value' = sem_value + 1
    /\ SetOp(p, Handle([ops[p] EXCEPT !.task = "none", !.why = "", !.qerr = NoErr],
                       CallTimeoutError))
    /\ UNCHANGED otherVars
    /\ UNCHANGED <<cfg, slot, error_queue, initialized, progress, orphans>>

\* The cancelled call task has finished (a cancelled backend call ends with
\* CancelledError, which _cancel_task catches): TimeoutError, or the queued
\* error, is raised out of `async with semaphore` into the except clauses.
CancelDone(p) ==
    LET o == ops[p]
        e == IF o.why = "timeout" THEN CallTimeoutError ELSE o.qerr
    IN
    /\ o.pc = "cancelling"
    /\ sem_value' = sem_value + 1
    /\ SetOp(p, Handle([o EXCEPT !.task = "none", !.why = "", !.qerr = NoErr], e))
    /\ UNCHANGED otherVars
    /\ UNCHANGED <<cfg, slot, error_queue, initialized, progress, orphans>>

\* _ReconnectableSession.rebuild, under its lock: _close_locked has closed
\* the transport and set _session = None; _open_session is awaited next.
RebuildCloses(p) ==
    /\ ops[p].pc = "recover"
    /\ ops[p].rec = "rebuild"
    /\ slot = "open"
    /\ slot' = "none"
    /\ UNCHANGED otherVars
    /\ UNCHANGED <<cfg, ops, sem_value, error_queue, initialized, progress, orphans>>

\* initialize() returns (on the session in the slot), or rebuild() returns a
\* new session on a new transport (nothing calls initialize on it).
RecoverDone(p) ==
    /\ ops[p].pc = "recover"
    /\ IF ops[p].rec = "rebuild" THEN slot = "none" ELSE slot = "open"
    /\ slot' = "open"
    /\ initialized' = (ops[p].rec # "rebuild")
    /\ SetOp(p, AfterRecovery(ops[p]))
    /\ UNCHANGED otherVars
    /\ UNCHANGED <<cfg, sem_value, error_queue, progress, orphans>>

\* asyncio.wait_for(remote_app.rebuild(), timeout=5.0) raises TimeoutError:
\* the fallback initialize is issued.
RebuildTimesOut(p) ==
    /\ ops[p].pc = "recover"
    /\ ops[p].rec = "rebuild"
    /\ SetOp(p, [ops[p] EXCEPT !.rec = "fallback", !.inits = Log(@ + 1, 0)])
    /\ UNCHANGED otherVars
    /\ UNCHANGED <<cfg, slot, sem_value, error_queue, initialized, progress, orphans>>

\* The recovery primitive raises: the exception leaves the except clause.
RecoverRaises(p, e) ==
    /\ ops[p].pc = "recover"
    /\ SetOp(p, Surface([ops[p] EXCEPT !.rec = ""], e))
    /\ UNCHANGED otherVars
    /\ UNCHANGED <<cfg, slot, sem_value, error_queue, initialized, progress, orphans>>

\* asyncio.sleep returns: `continue`.
SleepDone(p) ==
    /\ ops[p].pc = "sleep"
    /\ SetOp(p, Continue([ops[p] EXCEPT !.sleep_s = 0]))
    /\ UNCHANGED otherVars
    /\ UNCHANGED <<cfg, slot, sem_value, error_queue, initialized, progress, orphans>>

\* What a CancelledError delivered at the request's current await does.
\* Awaiting the cancelled call task, _cancel_task catches it and returns;
\* elsewhere nothing catches it (it is no Exception). asyncio.wait does not
\* cancel the tasks it waits for: they stay behind.
OnCancel(o) ==
    IF o.pc = "cancelling"
    THEN [o EXCEPT !.cancel_req = TRUE]
    ELSE [o EXCEPT !.pc = "done", !.outcome = "cancelled", !.cancel_req = TRUE,
                   !.rec = "", !.task = "none"]

\* Cancel for a handler that keeps its unit when it is cancelled in a call.
CancelKeepsUnit(p) ==
    LET o == ops[p] IN
    /\ o.pc \in {"acquire", "calling", "cancelling", "recover", "sleep"}
    /\ ~o.cancel_req
    /\ SetOp(p, OnCancel(o))
    /\ orphans' = IF o.pc = "calling" /\ TaskMode
                  THEN [calls |-> orphans.calls + 1,
                        getters |-> orphans.getters + (IF cfg.has_queue THEN 1 ELSE 0)]
                  ELSE orphans
    /\ UNCHANGED otherVars
    /\ UNCHANGED <<cfg, slot, sem_value, error_queue, initialized, progress>>

\* The caller cancels the request while it waits.
Cancel(p) ==
    LET o == ops[p] IN
    /\ o.pc \in {"acquire", "calling", "cancelling", "recover", "sleep"}
    /\ ~o.cancel_req
    /\ SetOp(p, OnCancel(o))
    /\ sem_value' = IF o.pc = "calling" THEN sem_value + 1 ELSE sem_value
    /\ orphans' = IF o.pc = "calling" /\ TaskMode
                  THEN [calls |-> orphans.calls + 1,
                        getters |-> orphans.getters + (IF cfg.has_queue THEN 1 ELSE 0)]
                  ELSE orphans
    /\ UNCHANGED otherVars
    /\ UNCHANGED <<cfg, slot, error_queue, initialized, progress>>

\* A call task left behind finishes.
OrphanCallEnds ==
    /\ orphans.calls > 0
    /\ orphans' = [orphans EXCEPT !.calls = @ - 1]
    /\ UNCHANGED otherVars
    /\ UNCHANGED <<cfg, slot, ops, sem_value, error_queue, initialized, progress>>

\* A queue task left behind takes the next error off the queue.
OrphanGetterTakes ==
    /\ orphans.getters > 0
    /\ error_queue # <<>>
    /\ error_queue' = Tail(error_queue)
    /\ orphans' = [orphans EXCEPT !.getters = @ - 1]
    /\ UNCHANGED otherVars
    /\ UNCHANGED <<cfg, slot, ops, sem_value, initialized, progress>>

\* a hook that offers the error of every response to the queue
LogResponseOffersAll(status, queue) ==
    [raises |-> (400 <= status /\ status < 500) \/ status = 503,
     exc |-> Http(status, {"Retryable HTTP status"}),
     queue |-> IF Len(queue) < QueueMax THEN Append(queue, status) ELSE queue]

\* httpx_client.log_response for a response with this status, the error queue
\* holding queue: a 4xx or a 503 makes an HTTPStatusError of the response,
\* offers it to the queue (put_nowait; dropped when the queue is full) and
\* raises it; with any other status the hook returns.
LogResponse(status, queue) ==
    IF (400 <= status /\ status < 500) \/ status = 503
    THEN [raises |-> TRUE,
          exc |-> Http(status, {"Retryable HTTP status"}),
          queue |-> IF Len(queue) < QueueMax THEN Append(queue, status) ELSE queue]
    ELSE [raises |-> FALSE, exc |-> NoErr, queue |-> queue]

\* The HTTP client receives a response and runs its response hook.
EnqueueError(status) ==
    /\ cfg.has_queue
    /\ error_queue' = LogResponse(status, error_queue).queue
    /\ UNCHANGED otherVars
    /\ UNCHANGED <<cfg, slot, ops, sem_value, initialized, progress, orphans>>

\* _send_progress_notification: awaited on the session, outside the semaphore.
ProgressStart ==
    /\ progress < MaxProgress
    /\ progress' = progress + 1
    /\ UNCHANGED otherVars
    /\ UNCHANGED <<cfg, slot, ops, sem_value, error_queue, initialized, orphans>>

ProgressEnd ==
    /\ progress > 0
    /\ progress' = progress - 1
    /\ UNCHANGED otherVars
    /\ UNCHANGED <<cfg, slot, ops, sem_value, error_queue, initialized, orphans>>

\* no transport client and no server manager is running
LoaderOff == load = [pc |-> "off"]

HttpOff == http = [pc |-> "off"]

SessionOff == rs = [pc |-> "off"]

OthersOff ==
    /\ cli = [pc |-> "off"] /\ mgr = [pc |-> "off"] /\ servers = <<>>
    /\ LoaderOff
    /\ HttpOff
    /\ SessionOff

\* The state create_proxy_server leaves: initialize has completed once, the
\* semaphore is full, no request has arrived.
ProxyAtRest ==
    /\ ops = [p \in Ops |-> NewOp]
    /\ sem_value = cfg.max_inflight
    /\ error_queue = <<>>
    /\ initialized = TRUE
    /\ slot = "open"
    /\ progress = 0
    /\ orphans = [calls |-> 0, getters |-> 0]

\* One request at a time, with the full menus and the log of what it did.
InitProxy ==
    /\ cfg \in [retry_attempts : (0 - 1)..MaxRetry,
                has_rebuild : BOOLEAN,
                has_queue : BOOLEAN,
                has_timeout : BOOLEAN,
                max_inflight : 1..MaxInflightTried,
                nops : {1},
                trace : {TRUE},
                payloads : {FALSE}]
    /\ ProxyAtRest
    /\ OthersOff

\* The sessions the clients hand to create_proxy_server: run_sse_client's
\* ClientSession (no rebuild, no queue, no deadline), and
\* run_streamablehttp_client's _ReconnectableSession.
SessionShapes ==
    { [has_rebuild |-> FALSE, has_queue |-> FALSE, has_timeout |-> FALSE],
      [has_rebuild |-> TRUE, has_queue |-> TRUE, has_timeout |-> TRUE] }

\* Concurrent requests on one session, with the short menus and no log.
InitGate ==
    /\ \E shape \in SessionShapes, r \in {GateRetry}, m \in 1..MaxInflightTried :
          cfg = [retry_attempts |-> r,
                 has_rebuild |-> shape.has_rebuild,
                 has_queue |-> shape.has_queue,
                 has_timeout |-> shape.has_timeout,
                 max_inflight |-> m,
                 nops |-> NumOps,
                 trace |-> FALSE,
                 payloads |-> FALSE]
    /\ ProxyAtRest
    /\ OthersOff

\* One request at a time, as InitProxy, the requests carrying arguments.
InitForward ==
    /\ \E shape \in SessionShapes, r \in 0..1 :
          cfg = [retry_attempts |-> r,
                 has_rebuild |-> shape.has_rebuild,
                 has_queue |-> shape.has_queue,
                 has_timeout |-> shape.has_timeout,
                 max_inflight |-> 1,
                 nops |-> 1,
                 trace |-> TRUE,
                 payloads |-> TRUE]
    /\ ProxyAtRest
    /\ OthersOff

NextProxy ==
    \/ \E p \in Ops, kind \in {"tool", "other"}, a \in Arguments : Start(p, kind, a)
    \/ \E p \in Ops : Acquire(p)
    \/ \E p \in Ops, r \in Results : CallReturns(p, r)
    \/ \E p \in Ops, e \in Excs : CallRaises(p, e)
    \/ \E p \in Ops : DeadlineFires(p)
    \/ \E p \in Ops : QueueFires(p)
    \/ \E p \in Ops : CancelDone(p)
    \/ \E p \in Ops : RebuildCloses(p)
    \/ \E p \in Ops : RecoverDone(p)
    \/ \E p \in Ops : RebuildTimesOut(p)
    \/ \E p \in Ops, e \in RecoveryExcs : RecoverRaises(p, e)
    \/ \E p \in Ops : SleepDone(p)
    \/ \E p \in Ops : Cancel(p)
    \/ OrphanCallEnds
    \/ OrphanGetterTakes
    \/ \E status \in Statuses : EnqueueError(status)
    \/ ProgressStart
    \/ ProgressEnd

SpecProxy == InitProxy /\ [][NextProxy]_vars

\* With several requests on one session, a request can make its call while
\* the rebuild of another has emptied the slot.
NextGate ==
    \/ NextProxy
    \/ \E p \in Ops : CallWithoutSession(p)

SpecGate == InitGate /\ [][NextGate]_vars

SpecForward == InitForward /\ [][NextProxy]_vars

\* What the event loop and the timers of the code guarantee: a handler that
\* can take the semaphore does, a sleep ends, the deadline of a call
\* (asyncio.wait with timeout) and of a rebuild (wait_for 5 s) strikes, a
\* cancelled call task ends. Nothing makes the backend answer a call, an
\* initialize or a rebuild.
FairProxy ==
    \A p \in Ops :
        /\ WF_vars(Acquire(p))
        /\ WF_vars(SleepDone(p))
        /\ WF_vars(DeadlineFires(p))
        /\ WF_vars(CancelDone(p))
        /\ WF_vars(RebuildTimesOut(p))

SpecForwardFair == SpecForward /\ FairProxy

-----------------------------------------------------------------------------
(* streamablehttp_client.py, sse_client.py: the connect loop of a client *)

\* ValueError("I/O operation on closed file"), raised by the stdio server
ClosedFileError == Exc("ValueError", NoStatus, NoCode, {"I/O operation on closed file"}, <<>>)

\* The exceptions an attempt of the client is made to end with.
ClientExcMenu ==
    { Http(503, {}), Http(404, {}), Plain({"boom"}), ClosedFileError,
      Exc("ValueError", NoStatus, NoCode, {"bad url"}, <<>>),
      Group({"unhandled errors in a TaskGroup"}, <<ClosedFileError>>),
      Chained({"startup failed"}, ClosedFileError),
      Plain({"I/O operation on closed file"}) }

\* a test that looks at the exception itself only
IsClosedStdioErrorTopOnly(exc) ==
    exc.cls = "ValueError" /\ "I/O operation on closed file" \in exc.text

\* _is_closed_stdio_error: a ValueError with that text, among the exception,
\* the members of its groups and its cause / context chains.
RECURSIVE IsClosedStdioError(_)
IsClosedStdioError(exc) ==
    \/ exc.cls = "ValueError" /\ "I/O operation on closed file" \in exc.text
    \/ \E i \in 1..Len(exc.children) : IsClosedStdioError(exc.children[i])

\* max_attempts = 1 + max(0, retry_attempts)
ClientMaxAttempts == 1 + Max(0, cli.retry_attempts)

\* a loop that allows one attempt more than the budget
CountAttemptOneMore(c, e, what) ==
    IF c.attempts + 1 > ClientMaxAttempts
    THEN [c EXCEPT !.pc = "done", !.attempts = @ + 1, !.outcome = what, !.raised = e]
    ELSE [c EXCEPT !.pc = "sleep", !.attempts = @ + 1]

\* attempts += 1; raise when the budget is used up, else sleep 0.5 and loop.
\* `what` is how the function ends if it raises: "raised" or "cancelled".
CountAttempt(c, e, what) ==
    IF c.attempts + 1 >= ClientMaxAttempts
    THEN [c EXCEPT !.pc = "done", !.attempts = @ + 1, !.outcome = what, !.raised = e]
    ELSE [c EXCEPT !.pc = "sleep", !.attempts = @ + 1]

\* The except clauses of the loop for an Exception.
HandleClient(c, e) ==
    IF c.kind = "http" /\ e.cls # "HTTPStatusError"
                       /\ (IsClosedStdioError(e) \/ c.stdin_closed)
    THEN [c EXCEPT !.pc = "done", !.outcome = "returned"]
    ELSE CountAttempt(c, e, "raised")

\* The head of `while attempts < max_attempts`: run_streamablehttp_client
\* returns when stdin is closed; else the transport is opened.
ClientLoop ==
    /\ cli.pc = "loop"
    /\ cli' = IF ~(cli.attempts < ClientMaxAttempts)
              THEN [cli EXCEPT !.pc = "done", !.outcome = "returned"]
              ELSE IF cli.kind = "http" /\ cli.stdin_closed
              THEN [cli EXCEPT !.pc = "done", !.outcome = "returned"]
              ELSE [cli EXCEPT !.pc = "connect", !.opens = @ + 1, !.err = NoErr]
    /\ UNCHANGED <<proxyVars, load, http, rs, mgr, servers>>

\* The transport and the session are open, create_proxy_server has returned:
\* app.run serves stdio.
ClientConnected ==
    /\ cli.pc = "connect"
    /\ cli' = [cli EXCEPT !.pc = "serving"]
    /\ UNCHANGED <<proxyVars, load, http, rs, mgr, servers>>

\* app.run returns: `return`.
ClientRunEnds ==
    /\ cli.pc = "serving"
    /\ cli' = [cli EXCEPT !.pc = "done", !.outcome = "returned"]
    /\ UNCHANGED <<proxyVars, load, http, rs, mgr, servers>>

\* Opening, initializing or serving raises.
ClientRaises(e) ==
    /\ cli.pc \in {"connect", "serving"}
    /\ cli' = HandleClient([cli EXCEPT !.err = e], e)
    /\ UNCHANGED <<proxyVars, load, http, rs, mgr, servers>>

\* The task running the client is cancelled. run_streamablehttp_client
\* catches the CancelledError of an attempt: re-raised when stdin is closed
\* or the budget is used up, else the loop sleeps and connects again. In the
\* sleep, and in run_sse_client, nothing catches it.
ClientCancel ==
    /\ cli.pc \in {"connect", "serving", "sleep"}
    /\ LET c == [cli EXCEPT !.cancel_req = TRUE] IN
       cli' = IF cli.kind = "http" /\ cli.pc # "sleep" /\ ~cli.stdin_closed
              THEN CountAttempt(c, NoErr, "cancelled")
              ELSE [c EXCEPT !.pc = "done", !.outcome = "cancelled"]
    /\ UNCHANGED <<proxyVars, load, http, rs, mgr, servers>>

\* asyncio.sleep(0.5) returns.
ClientSleepDone ==
    /\ cli.pc = "sleep"
    /\ cli' = [cli EXCEPT !.pc = "loop"]
    /\ UNCHANGED <<proxyVars, load, http, rs, mgr, servers>>

\* The parent process closes the pipe: sys.stdin.closed becomes true.
StdinCloses ==
    /\ cli.pc \notin {"off", "done"}
    /\ ~cli.stdin_closed
    /\ cli' = [cli EXCEPT !.stdin_closed = TRUE]
    /\ UNCHANGED <<proxyVars, load, http, rs, mgr, servers>>

\* no proxied request is modelled beside the connect loop
ProxyOff ==
    /\ cfg = [retry_attempts |-> 0, has_rebuild |-> FALSE, has_queue |-> FALSE,
              has_timeout |-> FALSE, max_inflight |-> 1, nops |-> 0, trace |-> FALSE,
              payloads |-> FALSE]
    /\ ProxyAtRest

\* run_sse_client / run_streamablehttp_client is called.
InitClient ==
    /\ cli \in [pc : {"loop"},
                 kind : {"http", "sse"},
                 retry_attempts : (0 - 1)..MaxRetry,
                 attempts : {0},
                 opens : {0},
                 stdin_closed : BOOLEAN,
                 cancel_req : {FALSE},
                 outcome : {"none"},
                 raised : {NoErr},
                 err : {NoErr}]
    /\ mgr = [pc |-> "off"]
    /\ servers = <<>>
    /\ ProxyOff
    /\ LoaderOff
    /\ HttpOff
    /\ SessionOff

NextClient ==
    \/ ClientLoop
    \/ ClientConnected
    \/ ClientRunEnds
    \/ \E e \in ClientExcMenu : ClientRaises(e)
    \/ ClientCancel
    \/ ClientSleepDone
    \/ StdinCloses

SpecClient == InitClient /\ [][NextClient]_vars

-----------------------------------------------------------------------------
(* server_manager.py: the pool of backends *)

Names == 1..NumServers

\* ManagedServer(name, config) with its default ServerHealth, and the task
\* start() creates for _connect_server: created, opening, initializing,
\* loading, finished, cancelled.
\* `tools` says that the lists of the row (tools, resources, prompts) hold
\* what the backend listed; `streak` counts the probe failures since the last
\* probe that passed (kept for the properties, the code has no such field).
NewServer ==
    [status |-> "CONNECTING", session |-> FALSE, failure_count |-> 0,
     last_error |-> FALSE, tools |-> FALSE, task |-> "created", streak |-> 0]

SetServer(n, row) == servers' = [servers EXCEPT ![n] = row]

TaskRunning(row) == row.task \in {"created", "opening", "initializing", "loading"}

\* _disconnect_server (it has no await: it runs in one step with its caller)
DisconnectServer(row) ==
    [row EXCEPT !.session = FALSE, !.status = "DISCONNECTED", !.tools = FALSE]


\* How wait_for(self._context_stack.aclose(), timeout=1.0) can end.
CloseOutcomes == {"returned", "raised", "timeout"}

-----------------------------------------------------------------------------
(* The aggregation of the catalogues and the routing of requests.  Names and
   URIs are written as sequences of characters. *)

\* The three capability kinds; f"{namespace}.{tool.name}",
\* f"{namespace}://{resource.uri}", f"{namespace}.{prompt.name}".
Kinds == {"tools", "resources", "prompts"}

Sep(k) == IF k = "resources" THEN <<":", "/", "/">> ELSE <<".">>

\* The names of the backends in bridge_config.servers, in the order of the
\* configuration.
ServerNames == <<"a", "b", "c", "d">>

ServerName(n) == <<ServerNames[n]>>

\* What a backend lists: x, y, or a name that itself holds the separator of
\* its kind (a.x, a://x).
Local(k, t) == IF t = "a-x" THEN <<"a">> \o Sep(k) \o <<"x">> ELSE <<t>>

CatalogueMenu == {<<"x">>, <<"x", "y">>, <<"a-x", "x">>}

\* tool_namespace, resource_namespace, prompt_namespace: all unset, one set,
\* all set. An unset (None or empty) namespace is written <<>>.
NamespaceMenu ==
    {[k \in Kinds |-> <<>>],
     [k \in Kinds |-> IF k = "tools" THEN <<"a">> ELSE <<>>],
     [k \in Kinds |-> <<"a">>]}

\* BridgeServerConfig: priority and namespaces; `catalogue` is what the
\* backend answers to list_tools, list_resources and list_prompts.
ConfigMenu ==
    [priority : 1..MaxPriority, namespace : NamespaceMenu, catalogue : CatalogueMenu]

PlainConfig ==
    [n \in Names |-> [priority |-> 1, namespace |-> [k \in Kinds |-> <<>>],
                      catalogue |-> <<"x", "y">>]]

\* The entry a backend lists: types.Tool(name, description, inputSchema),
\* types.Resource(uri, ...), types.Prompt(name, description, arguments).
Entry(n, k, t) ==
    [name |-> Local(k, t), description |-> <<n, t>>, schema |-> <<k, t>>]

\* server.tools, server.resources, server.prompts
ServerList(n, k) ==
    IF servers[n].tools
    THEN [i \in 1..Len(mgr.config[n].catalogue) |-> Entry(n, k, mgr.config[n].catalogue[i])]
    ELSE <<>>

\* ManagedServer.get_effective_namespace
GetEffectiveNamespace(n, k) ==
    IF mgr.config[n].namespace[k] # <<>> THEN mgr.config[n].namespace[k]
    ELSE IF mgr.default_namespace THEN ServerName(n)
    ELSE <<>>

\* The values of a dict in insertion order: the rows were inserted in the
\* order of the configuration.
RECURSIVE InOrder(_)
InOrder(S) ==
    IF S = {} THEN <<>>
    ELSE LET m == CHOOSE x \in S : \A y \in S : x <= y IN
         <<m>> \o InOrder(S \ {m})

\* every row of the pool, whatever its status
GetActiveServersAnyStatus ==
    InOrder(DOMAIN servers)

\* get_active_servers
GetActiveServers ==
    InOrder({n \in DOMAIN servers : servers[n].status = "CONNECTED"})

\* get_server_by_name: the row, or None
GetServerByName(n) ==
    IF n \in DOMAIN servers THEN <<servers[n]>> ELSE <<>>

\* sorted(..., key=lambda s: s.config.priority): a stable sort
RECURSIVE SortedByPriority(_)
SortedByPriority(seq) ==
    IF seq = <<>> THEN <<>>
    ELSE LET x == seq[Len(seq)]
             front == SortedByPriority(SubSeq(seq, 1, Len(seq) - 1))
             NotAfter(y) == mgr.config[y].priority <= mgr.config[x].priority
             After(y) == mgr.config[y].priority > mgr.config[x].priority
         IN SelectSeq(front, NotAfter) \o <<x>> \o SelectSeq(front, After)

\* every kind joined with a dot
ExposedWithDot(ns, k, name) == IF ns # <<>> THEN ns \o <<".">> \o name ELSE name

\* tool_name = f"{namespace}.{tool.name}" if namespace else tool.name
Exposed(ns, k, name) == IF ns # <<>> THEN ns \o Sep(k) \o name ELSE name

\* The entries of one backend under their exposed names, in list order.
Namespaced(n, k) ==
    [i \in 1..Len(ServerList(n, k)) |->
        [ServerList(n, k)[i] EXCEPT
            !.name = Exposed(GetEffectiveNamespace(n, k), k, @)]]

RECURSIVE Visit(_, _)
Visit(seq, k) ==
    IF seq = <<>> THEN <<>> ELSE Namespaced(Head(seq), k) \o Visit(Tail(seq), k)

\* The loop body of get_aggregated_*: a name already seen raises under
\* "error" and is skipped under "first"; under "priority" and "namespace"
\* neither branch is taken and the entry is appended.
RECURSIVE Merge(_, _)
Merge(entries, acc) ==
    IF entries = <<>> \/ acc.raised THEN acc
    ELSE LET e == Head(entries)
             seen == {acc.list[i].name : i \in 1..Len(acc.list)}
         IN IF e.name \in seen /\ mgr.conflict_resolution = "error"
            THEN [raised |-> TRUE, conflict |-> e.name, list |-> <<>>]
            ELSE IF e.name \in seen /\ mgr.conflict_resolution = "first"
            THEN Merge(Tail(entries), acc)
            ELSE Merge(Tail(entries), [acc EXCEPT !.list = Append(@, e)])

\* a listing that appends every entry and looks at no name
GetAggregatedUnchecked(k) ==
    [raised |-> FALSE, conflict |-> <<>>,
     list |-> Visit(SortedByPriority(GetActiveServers), k)]

\* get_aggregated_tools, get_aggregated_resources, get_aggregated_prompts
GetAggregated(k) ==
    Merge(Visit(SortedByPriority(GetActiveServers), k),
          [raised |-> FALSE, conflict |-> <<>>, list |-> <<>>])

\* `"." in tool_name`, `"://" in resource_uri`
Contains(id, sep) ==
    \E i \in 1..(Len(id) - Len(sep) + 1) : SubSeq(id, i, i + Len(sep) - 1) = sep

\* tool_name.split(".", 1): the parts before and after the first separator
Split(id, sep) ==
    LET i == CHOOSE j \in 1..(Len(id) - Len(sep) + 1) :
                 /\ SubSeq(id, j, j + Len(sep) - 1) = sep
                 /\ \A h \in 1..(j - 1) : SubSeq(id, h, h + Len(sep) - 1) # sep
    IN <<SubSeq(id, 1, i - 1), SubSeq(id, i + Len(sep), Len(id))>>

\* any(tool.name == actual_tool_name for tool in s.tools)
Owns(n, k, local) ==
    \E i \in 1..Len(ServerList(n, k)) : ServerList(n, k)[i].name = local

\* call_tool, read_resource, get_prompt up to the call of the session: the
\* backend chosen and the local name it is called with, or the ValueError.
\* An effective namespace of None equals no namespace parsed from the name.
Route(k, id) ==
    LET parts == IF Contains(id, Sep(k)) THEN Split(id, Sep(k)) ELSE <<<<>>, id>>
        actual == parts[2]
        Named(n) == /\ GetEffectiveNamespace(n, k) # <<>>
                    /\ GetEffectiveNamespace(n, k) = parts[1]
                    /\ Owns(n, k, actual)
        Bare(n) == Owns(n, k, actual)
        found == IF Contains(id, Sep(k)) THEN SelectSeq(GetActiveServers, Named)
                 ELSE SelectSeq(GetActiveServers, Bare)
    IN IF found = <<>> \/ ~servers[Head(found)].session
       THEN [found |-> FALSE, server |-> 0, local |-> actual]
       ELSE [found |-> TRUE, server |-> Head(found), local |-> actual]

\* The identifiers a client may ask for: every local name, bare and under
\* each namespace in use.
IdMenu(k) ==
    {Exposed(ns, k, Local(k, t)) :
        ns \in {<<>>, <<"a">>} \cup {ServerName(n) : n \in Names},
        t \in {"x", "y", "a-x"}}

-----------------------------------------------------------------------------
(* bridge_server.py: the request handlers of the aggregated server *)

\* How the call of the backend's session ends.
BackendOutcomes == {"returns", "raises"}

\* ServerManager.call_tool / read_resource / get_prompt as a whole: the
\* ValueError of the routing, the exception of the backend (logged and
\* raised again), or the backend's result.
ManagerCall(k, id, outcome) ==
    LET r == Route(k, id) IN
    IF ~r.found
    THEN [raised |-> TRUE, text |-> "No active server found", server |-> 0,
          local |-> r.local]
    ELSE IF outcome = "raises"
    THEN [raised |-> TRUE, text |-> "backend error", server |-> r.server,
          local |-> r.local]
    ELSE [raised |-> FALSE, text |-> "", server |-> r.server, local |-> r.local]

\* a handler without its try / except
ListHandlerPropagates(k) ==
    LET tools == GetAggregated(k) IN
    [escaped |-> tools.raised, list |-> tools.list]

\* _list_tools, _list_resources, _list_prompts: `except Exception` answers
\* with an empty list.
ListHandler(k) ==
    LET tools == GetAggregated(k) IN
    IF tools.raised
    THEN [escaped |-> FALSE, list |-> <<>>]
    ELSE [escaped |-> FALSE, list |-> tools.list]

\* _call_tool, _read_resource, _get_prompt: `except Exception` answers with
\* a result made of the error text; only CallToolResult has isError.
CallHandler(k, id, outcome) ==
    LET result == ManagerCall(k, id, outcome) IN
    IF result.raised
    THEN [escaped |-> FALSE, is_error |-> (k = "tools"), text |-> result.text,
          server |-> 0]
    ELSE [escaped |-> FALSE, is_error |-> FALSE, text |-> "", server |-> result.server]

\* start() up to its wait: a row and a connect task for every enabled config.
ManagerStart ==
    /\ mgr.pc = "init"
    /\ servers' = [n \in mgr.enabled |-> NewServer]
    /\ mgr' = [mgr EXCEPT !.pc = "waiting"]
    /\ UNCHANGED <<proxyVars, load, http, rs, cli>>

\* _connect_server starts: status = CONNECTING, then stdio_client and
\* ClientSession are being entered.
ConnectServerBegin(n) ==
    /\ n \in DOMAIN servers
    /\ servers[n].task = "created"
    /\ SetServer(n, [servers[n] EXCEPT !.status = "CONNECTING", !.task = "opening"])
    /\ UNCHANGED <<proxyVars, load, http, rs, cli, mgr>>

\* server.session = session, then session.initialize() is awaited.
ConnectServerOpened(n) ==
    /\ n \in DOMAIN servers
    /\ servers[n].task = "opening"
    /\ SetServer(n, [servers[n] EXCEPT !.session = TRUE, !.task = "initializing"])
    /\ UNCHANGED <<proxyVars, load, http, rs, cli, mgr>>

\* initialize returned: the health is updated and the catalogue is loaded.
ConnectServerInitialized(n) ==
    /\ n \in DOMAIN servers
    /\ servers[n].task = "initializing"
    /\ SetServer(n, [servers[n] EXCEPT !.status = "CONNECTED", !.failure_count = 0,
                                       !.last_error = FALSE, !.task = "loading"])
    /\ UNCHANGED <<proxyVars, load, http, rs, cli, mgr>>

\* _load_server_capabilities returns: loaded, or its exception logged.
ConnectServerLoaded(n, loaded) ==
    /\ n \in DOMAIN servers
    /\ servers[n].task = "loading"
    /\ SetServer(n, [servers[n] EXCEPT !.tools = loaded, !.task = "finished"])
    /\ UNCHANGED <<proxyVars, load, http, rs, cli, mgr>>

\* a handler that records the failure and keeps the session
ConnectServerFailsKeepsSession(n, loaded) ==
    /\ n \in DOMAIN servers
    /\ servers[n].task \in {"opening", "initializing", "loading"}
    /\ loaded => servers[n].task = "loading"
    /\ SetServer(n, [servers[n] EXCEPT !.status = "FAILED", !.failure_count = @ + 1,
                                       !.last_error = TRUE,
                                       !.tools = loaded, !.task = "finished"])
    /\ UNCHANGED <<proxyVars, load, http, rs, cli, mgr>>

\* `except Exception` of _connect_server: the connection failed, or
\* asyncio.timeout(server.config.timeout) expired; when it expires inside
\* _load_server_capabilities the lists loaded so far stay on the row.
ConnectServerFails(n, loaded) ==
    /\ n \in DOMAIN servers
    /\ servers[n].task \in {"opening", "initializing", "loading"}
    /\ loaded => servers[n].task = "loading"
    /\ SetServer(n, [servers[n] EXCEPT !.status = "FAILED", !.failure_count = @ + 1,
                                       !.last_error = TRUE, !.session = FALSE,
                                       !.tools = loaded, !.task = "finished"])
    /\ UNCHANGED <<proxyVars, load, http, rs, cli, mgr>>

\* start() after its wait: the health-check task is created when failover is
\* enabled.
Started(m) ==
    [m EXCEPT !.pc = "running",
              !.health = IF m.failover THEN "check" ELSE "none",
              !.at = 1]

\* gather returned: every connect task has finished.
StartConnected ==
    /\ mgr.pc = "waiting"
    /\ \A n \in DOMAIN servers : ~TaskRunning(servers[n])
    /\ mgr' = Started(mgr)
    /\ UNCHANGED <<proxyVars, load, http, rs, cli, servers>>

\* wait_for(gather(...), timeout=30.0) expires: it cancels the gather, which
\* cancels the connect tasks still running; CancelledError is no Exception,
\* so _connect_server leaves the row as it is.
StartTimesOut ==
    /\ mgr.pc = "waiting"
    /\ \E n \in DOMAIN servers : TaskRunning(servers[n])
    /\ servers' = [n \in DOMAIN servers |->
                     IF TaskRunning(servers[n])
                     THEN [servers[n] EXCEPT !.task = "cancelled"]
                     ELSE servers[n]]
    /\ mgr' = Started(mgr)
    /\ UNCHANGED <<proxyVars, load, http, rs, cli>>

\* the row _perform_health_checks probes: CONNECTED with a session
Probed(n) ==
    /\ n \in DOMAIN servers
    /\ servers[n].status = "CONNECTED"
    /\ servers[n].session

\* _perform_health_checks passes a row it does not probe.
HealthCheckSkips ==
    /\ mgr.health = "check"
    /\ mgr.at \in Names
    /\ ~Probed(mgr.at)
    /\ mgr' = [mgr EXCEPT !.at = @ + 1]
    /\ UNCHANGED <<proxyVars, load, http, rs, cli, servers>>

\* wait_for(server.session.list_tools(), timeout=5.0) is awaited.
HealthCheckProbes ==
    /\ mgr.health = "check"
    /\ mgr.at \in Names
    /\ Probed(mgr.at)
    /\ mgr' = [mgr EXCEPT !.health = "probing"]
    /\ UNCHANGED <<proxyVars, load, http, rs, cli, servers>>

\* The probe returns: last_seen is updated.
HealthCheckPasses ==
    /\ mgr.health = "probing"
    /\ SetServer(mgr.at, [servers[mgr.at] EXCEPT !.streak = 0])
    /\ mgr' = [mgr EXCEPT !.health = "check", !.at = @ + 1]
    /\ UNCHANGED <<proxyVars, load, http, rs, cli>>

\* The probe raises or times out: the failure is counted, and at
\* max_failures the row is marked FAILED and disconnected.
HealthCheckFails ==
    LET row == [servers[mgr.at] EXCEPT !.failure_count = @ + 1, !.last_error = TRUE,
                                       !.streak = @ + 1] IN
    /\ mgr.health = "probing"
    /\ SetServer(mgr.at, IF row.failure_count >= mgr.max_failures
                         THEN DisconnectServer([row EXCEPT !.status = "FAILED"])
                         ELSE row)
    /\ mgr' = [mgr EXCEPT !.health = "check", !.at = @ + 1]
    /\ UNCHANGED <<proxyVars, load, http, rs, cli>>

\* Every row was visited: asyncio.sleep(30).
HealthCheckSleeps ==
    /\ mgr.health = "check"
    /\ mgr.at = NumServers + 1
    /\ mgr' = [mgr EXCEPT !.health = "sleep"]
    /\ UNCHANGED <<proxyVars, load, http, rs, cli, servers>>

\* The sleep returns: `while not self._shutdown_event.is_set()`.
HealthCheckWakes ==
    /\ mgr.health = "sleep"
    /\ mgr' = [mgr EXCEPT !.health = IF mgr.shutdown THEN "ended" ELSE "check",
                          !.at = 1]
    /\ UNCHANGED <<proxyVars, load, http, rs, cli, servers>>

\* stop() up to the closing of the context stack: the shutdown event is set
\* and the health-check task is cancelled and awaited.
ManagerStop ==
    /\ mgr.pc = "running"
    /\ mgr' = [mgr EXCEPT !.pc = "closing", !.shutdown = TRUE,
                          !.health = IF @ = "none" THEN "none" ELSE "ended"]
    /\ UNCHANGED <<proxyVars, load, http, rs, cli, servers>>

\* a stop() that lets what the closing raised go through
ManagerStoppedPropagates(how) ==
    /\ mgr.pc = "closing"
    /\ mgr' = [mgr EXCEPT !.pc = IF how = "returned" THEN "stopped" ELSE "raised",
                          !.close = how]
    /\ UNCHANGED <<proxyVars, load, http, rs, cli, servers>>

\* wait_for(self._context_stack.aclose(), timeout=1.0) returns, raises an
\* Exception or times out: `except (Exception, asyncio.TimeoutError)` logs
\* it and stop() returns. The rows are not touched.
ManagerStopped(how) ==
    /\ mgr.pc = "closing"
    /\ mgr' = [mgr EXCEPT !.pc = "stopped", !.close = how]
    /\ UNCHANGED <<proxyVars, load, http, rs, cli, servers>>

\* ServerManager(bridge_config): no row yet.
InitManager ==
    /\ mgr \in [pc : {"init"},
                 enabled : SUBSET Names,
                 failover : BOOLEAN,
                 max_failures : 1..MaxFailuresTried,
                 shutdown : {FALSE},
                 health : {"none"},
                 at : {1},
                 close : {"open"},
                 conflict_resolution : {"namespace", "first", "error"},
                 default_namespace : BOOLEAN,
                 config : {PlainConfig}]
    /\ servers = <<>>
    /\ cli = [pc |-> "off"]
    /\ ProxyOff
    /\ LoaderOff
    /\ HttpOff
    /\ SessionOff

NextManager ==
    \/ ManagerStart
    \/ \E n \in Names : ConnectServerBegin(n)
    \/ \E n \in Names : ConnectServerOpened(n)
    \/ \E n \in Names : ConnectServerInitialized(n)
    \/ \E n \in Names, loaded \in BOOLEAN : ConnectServerLoaded(n, loaded)
    \/ \E n \in Names, loaded \in BOOLEAN : ConnectServerFails(n, loaded)
    \/ StartConnected
    \/ StartTimesOut
    \/ HealthCheckSkips
    \/ HealthCheckProbes
    \/ HealthCheckPasses
    \/ HealthCheckFails
    \/ HealthCheckSleeps
    \/ HealthCheckWakes
    \/ ManagerStop
    \/ \E how \in CloseOutcomes : ManagerStopped(how)

SpecManager == InitManager /\ [][NextManager]_vars

\* The background tasks of the manager are scheduled fairly: every step of a
\* connect task, of start() and of the health-check loop is taken in the
\* end, and a probe of a reachable backend passes. Failures, the start
\* deadline and stop() are not forced.
FairManager ==
    /\ WF_vars(ManagerStart)
    /\ \A n \in Names : WF_vars(ConnectServerBegin(n))
    /\ \A n \in Names : WF_vars(ConnectServerOpened(n))
    /\ \A n \in Names : WF_vars(ConnectServerInitialized(n))
    /\ \A n \in Names : WF_vars(ConnectServerLoaded(n, TRUE))
    /\ WF_vars(StartConnected)
    /\ WF_vars(HealthCheckSkips)
    /\ WF_vars(HealthCheckProbes)
    /\ WF_vars(HealthCheckPasses)
    /\ WF_vars(HealthCheckSleeps)
    /\ WF_vars(HealthCheckWakes)

SpecManagerFair == SpecManager /\ FairManager

\* The pool under every configuration of namespaces, priorities, catalogues
\* and conflict policy: start() connects the backends, some fail, some are
\* late.
InitAggregate ==
    /\ mgr \in [pc : {"init"},
                 enabled : {Names},
                 failover : {FALSE},
                 max_failures : {1},
                 shutdown : {FALSE},
                 health : {"none"},
                 at : {1},
                 close : {"open"},
                 conflict_resolution : {"priority", "namespace", "first", "error"},
                 default_namespace : BOOLEAN,
                 config : [Names -> ConfigMenu]]
    /\ servers = <<>>
    /\ cli = [pc |-> "off"]
    /\ ProxyOff
    /\ LoaderOff
    /\ HttpOff
    /\ SessionOff

NextAggregate ==
    \/ ManagerStart
    \/ \E n \in Names : ConnectServerBegin(n)
    \/ \E n \in Names : ConnectServerOpened(n)
    \/ \E n \in Names : ConnectServerInitialized(n)
    \/ \E n \in Names, loaded \in BOOLEAN : ConnectServerLoaded(n, loaded)
    \/ \E n \in Names, loaded \in BOOLEAN : ConnectServerFails(n, loaded)
    \/ StartConnected
    \/ StartTimesOut

SpecAggregate == InitAggregate /\ [][NextAggregate]_vars

-----------------------------------------------------------------------------
(* config_loader.py: loading the configuration file *)

\* An entry of mcpServers: a JSON object or not; "enabled"; "command"
\* absent, "" or a program; "args" absent, a list or a string;
\* "healthCheck" absent, an object or a string.
ServerEntry(object, enabled, command, args, health) ==
    [object |-> object, enabled |-> enabled, command |-> command,
     args |-> args, health |-> health]

EntryMenu ==
    { ServerEntry(FALSE, TRUE, "absent", "absent", "absent"),
      ServerEntry(TRUE, TRUE, "run", "list", "absent"),
      ServerEntry(TRUE, TRUE, "run", "absent", "object"),
      ServerEntry(TRUE, TRUE, "absent", "list", "absent"),
      ServerEntry(TRUE, TRUE, "empty", "list", "absent"),
      ServerEntry(TRUE, TRUE, "run", "string", "absent"),
      ServerEntry(TRUE, FALSE, "run", "list", "absent"),
      ServerEntry(TRUE, TRUE, "run", "list", "string") }

\* What is at the path: no file, a file that cannot be read, text that is no
\* JSON, JSON that is no object, an object without "mcpServers", an object
\* whose "mcpServers" is no object, or an object whose "mcpServers" holds
\* these entries (in the order of the file).
FileKinds ==
    { "missing", "unreadable", "invalid_json", "not_dict", "no_key",
      "servers_not_object", "ok" }

FileMenu ==
    { [kind |-> k, entries |-> <<>>] : k \in FileKinds \ {"ok"} }
      \cup { [kind |-> "ok", entries |-> es] :
                es \in UNION { [1..n -> EntryMenu] : n \in 0..MaxEntries } }

Raised(cls) == [outcome |-> "raised", raised |-> cls, kept |-> {}, warned |-> {}]
Returned(kept, warned) ==
    [outcome |-> "returned", raised |-> "", kept |-> kept, warned |-> warned]

\* open + json.load and the test for the "mcpServers" key: the class of the
\* exception raised, "" when there is none.
ReadConfig(file) ==
    CASE file.kind = "missing" -> "FileNotFoundError"
      [] file.kind = "invalid_json" -> "JSONDecodeError"
      [] file.kind \in {"unreadable", "not_dict", "no_key"} -> "ValueError"
      [] OTHER -> ""

\* `if not command` / `if not isinstance(command_args, list)` do not skip.
Usable(e) == e.command = "run" /\ e.args # "string"

\* mcp_proxy.config_loader.load_named_server_configs_from_file: the entries
\* kept (by position) and those skipped with a warning.
LoadNamedServerConfigs(file) ==
    IF ReadConfig(file) # "" THEN Raised(ReadConfig(file))
    ELSE IF file.kind = "servers_not_object" THEN Raised("AttributeError")
    ELSE LET es == file.entries IN
         Returned({ i \in DOMAIN es : es[i].object /\ es[i].enabled /\ Usable(es[i]) },
                  { i \in DOMAIN es : ~es[i].object \/ (es[i].enabled /\ ~Usable(es[i])) })

\* The JSON schema of validate_bridge_config for one entry: an object with
\* a string "command", an array "args", an object "healthCheck".
SchemaAccepts(e) ==
    e.object /\ e.command # "absent" /\ e.args # "string" /\ e.health # "string"

\* validate_bridge_config: nothing is validated without the jsonschema package.
ValidateBridgeConfig(file, jsonschema) ==
    IF jsonschema /\ (\/ file.kind = "servers_not_object"
                      \/ \E i \in DOMAIN file.entries : ~SchemaAccepts(file.entries[i]))
    THEN "ValueError"
    ELSE ""

\* mcp_foxxy_bridge.config_loader.load_bridge_config_from_file
LoadBridgeConfig(file, jsonschema) ==
    IF ReadConfig(file) # "" THEN Raised(ReadConfig(file))
    ELSE IF ValidateBridgeConfig(file, jsonschema) # "" THEN Raised("ValueError")
    ELSE IF file.kind = "servers_not_object" THEN Raised("AttributeError")
    ELSE LET es == file.entries IN
         IF \E i \in DOMAIN es : es[i].object /\ es[i].health = "string"
         THEN Raised("AttributeError")
         ELSE Returned({ i \in DOMAIN es : es[i].object /\ Usable(es[i]) },
                       { i \in DOMAIN es : ~es[i].object \/ ~Usable(es[i]) })

\* load_named_server_configs_from_file is called.
LoadNamedServerConfigsFromFile ==
    /\ load.pc = "start" /\ load.loader = "named"
    /\ LET r == LoadNamedServerConfigs(load.file) IN
       load' = [load EXCEPT !.pc = "done", !.outcome = r.outcome, !.raised = r.raised,
                            !.kept = r.kept, !.warned = r.warned]
    /\ UNCHANGED <<proxyVars, http, rs, cli, mgr, servers>>

\* load_bridge_config_from_file is called.
LoadBridgeConfigFromFile ==
    /\ load.pc = "start" /\ load.loader = "bridge"
    /\ LET r == LoadBridgeConfig(load.file, load.jsonschema) IN
       load' = [load EXCEPT !.pc = "done", !.outcome = r.outcome, !.raised = r.raised,
                            !.kept = r.kept, !.warned = r.warned]
    /\ UNCHANGED <<proxyVars, http, rs, cli, mgr, servers>>

\* A loader is about to be called on a file; the jsonschema package is
\* installed or not (it matters to the bridge loader only).
InitLoad ==
    /\ load \in [pc : {"start"},
                  loader : {"named", "bridge"},
                  jsonschema : BOOLEAN,
                  file : FileMenu,
                  outcome : {"none"},
                  raised : {""},
                  kept : {{}},
                  warned : {{}}]
    /\ load.loader = "named" => ~load.jsonschema
    /\ cli = [pc |-> "off"] /\ mgr = [pc |-> "off"] /\ servers = <<>>
    /\ ProxyOff
    /\ HttpOff
    /\ SessionOff

NextLoad ==
    \/ LoadNamedServerConfigsFromFile
    \/ LoadBridgeConfigFromFile

SpecLoad == InitLoad /\ [][NextLoad]_vars

-----------------------------------------------------------------------------
(* httpx_client.py: the request and response hooks and request_state *)

\* request.headers.get("mcp-session-id") of a request without the header, and
\* dict.get of a key that request_state does not hold
NoHeader == "None"

Methods == {"POST", "GET"}
SessionIds == {"s1", "s2"}
\* the header as the transport puts it on a request
RequestHeaders == SessionIds \cup {NoHeader}
\* the header of a response: absent, empty or a session identifier
ResponseHeaders == SessionIds \cup {NoHeader, ""}
HookStatuses == {200, 404, 503}

\* Python truth of a value read off request_state or off a header
Truthy(v) == v \notin {"None", "False", ""}

\* request_state = {} (streamablehttp_client.py): no key is present
EmptyRequestState ==
    [force_clear_session_id |-> "None",
     last_session_id |-> "None",
     last_request_method |-> "None",
     last_request_session_id |-> "None",
     last_post_status |-> NoStatus,
     last_post_session_id |-> "None",
     last_get_status |-> NoStatus,
     last_get_session_id |-> "None"]

\* log_request: while force_clear_session_id is true the header is popped off
\* the request; the request as sent is recorded.  (Timestamps and URLs are
\* left out.)
LogRequest(state, request) ==
    LET sent == IF Truthy(state.force_clear_session_id) /\ request.session_id # NoHeader
                THEN [request EXCEPT !.session_id = NoHeader]
                ELSE request
    IN [request |-> sent,
        state |-> [state EXCEPT !.last_request_method = sent.method,
                                !.last_request_session_id = sent.session_id]]

\* a response hook that looks at the status before it looks at the header
LogResponseStateStatusFirst(state, response) ==
    LET s1 == IF response.status = 404
              THEN [state EXCEPT !.force_clear_session_id = "True"]
              ELSE state
    IN IF Truthy(response.session_id)
       THEN [s1 EXCEPT !.last_session_id = response.session_id,
                       !.force_clear_session_id = "False"]
       ELSE s1

\* log_response, the part that keeps request_state: the status of the last
\* POST and GET, then the session identifier of the response (a truthy
\* header clears force_clear_session_id), then the status 404 (sets it).
LogResponseState(state, response) ==
    LET s1 == IF response.request.method = "POST"
              THEN [state EXCEPT !.last_post_status = response.status,
                                 !.last_post_session_id = response.request.session_id]
              ELSE IF response.request.method = "GET"
              THEN [state EXCEPT !.last_get_status = response.status,
                                 !.last_get_session_id = response.request.session_id]
              ELSE state
        s2 == IF Truthy(response.session_id)
              THEN [s1 EXCEPT !.last_session_id = response.session_id,
                              !.force_clear_session_id = "False"]
              ELSE s1
    IN IF response.status = 404
       THEN [s2 EXCEPT !.force_clear_session_id = "True"]
       ELSE s2

NoEvent ==
    [hook |-> "none", offered |-> NoHeader, sent |-> NoHeader,
     status |-> NoStatus, session_id |-> NoHeader, raised |-> FALSE]

\* The transport sends a request through the client: the request hook runs.
SendRequest(method, session_id) ==
    /\ http.pc = "on"
    /\ Len(http.in_flight) < MaxInFlight
    /\ LET r == LogRequest(http.request_state, [method |-> method, session_id |-> session_id]) IN
       http' = [http EXCEPT !.request_state = r.state,
                            !.in_flight = Append(@, r.request),
                            !.last = [NoEvent EXCEPT !.hook = "request",
                                                     !.offered = session_id,
                                                     !.sent = r.request.session_id]]
    /\ UNCHANGED <<proxyVars, cli, mgr, servers, load, rs>>

\* The response to the i-th request in flight arrives: the response hook runs.
ReceiveResponse(i, status, session_id) ==
    /\ http.pc = "on"
    /\ i \in 1..Len(http.in_flight)
    /\ LET response == [request |-> http.in_flight[i], status |-> status,
                        session_id |-> session_id]
           r == LogResponse(status, error_queue)
       IN /\ http' = [http EXCEPT
                        !.request_state = LogResponseState(@, response),
                        !.in_flight = [j \in 1..(Len(@) - 1) |-> IF j < i THEN @[j] ELSE @[j + 1]],
                        !.last = [NoEvent EXCEPT !.hook = "response",
                                                 !.status = status,
                                                 !.session_id = session_id,
                                                 !.raised = r.raises]]
          /\ error_queue' = IF cfg.has_queue THEN r.queue ELSE error_queue
    /\ UNCHANGED <<cfg, ops, sem_value, initialized, slot, progress, orphans>>
    /\ UNCHANGED <<cli, mgr, servers, load, rs>>

InitHttp ==
    /\ http = [pc |-> "on", request_state |-> EmptyRequestState,
               in_flight |-> <<>>, last |-> NoEvent]
    /\ cli = [pc |-> "off"] /\ mgr = [pc |-> "off"] /\ servers = <<>>
    /\ LoaderOff
    /\ SessionOff
    /\ ProxyOff

NextHttp ==
    \/ \E m \in Methods, h \in RequestHeaders : SendRequest(m, h)
    \/ \E i \in 1..MaxInFlight, st \in HookStatuses, h \in ResponseHeaders :
          ReceiveResponse(i, st, h)

SpecHttp == InitHttp /\ [][NextHttp]_vars

-----------------------------------------------------------------------------
(* streamablehttp_client.py: _ReconnectableSession *)

\* _stack / _session hold None
None == 0

\* Transports are numbered in the order they are opened. The calls of open,
\* rebuild and close are taken one after another: each holds _lock from its
\* first step to its last (a caller that waits for the lock and times out
\* changes no field).
NewSession ==
    [pc |-> "new", action |-> "", stack |-> None, session |-> None,
     opening |-> None, opened |-> 0, live |-> {},
     last |-> [action |-> "", result |-> ""]]

\* the lock is released and the call returns or raises
Ends(r, result) ==
    [r EXCEPT !.pc = IF r.action = "close" THEN "closed"
                     ELSE IF r.action = "open" /\ result = "raised" THEN "dropped"
                     ELSE "idle",
              !.action = "", !.opening = None,
              !.last = [action |-> r.action, result |-> result]]

\* _open_session starts: a new AsyncExitStack, held in a local variable, and
\* streamablehttp_client(...) is being entered on it.
OpenSession(r) ==
    [r EXCEPT !.pc = "enter_transport", !.opening = r.opened + 1, !.opened = @ + 1]

\* a _close_locked that forgets the stack without closing it
CloseLockedForgets(r) ==
    LET r1 == [r EXCEPT !.stack = None, !.session = None] IN
    IF r.action = "rebuild" THEN OpenSession(r1) ELSE Ends(r1, "returned")

\* _close_locked once aclose() has returned (or with no stack to close):
\* every context of the stack has been exited, _stack and _session are set
\* to None; rebuild goes on to _open_session, close returns.
CloseLocked(r) ==
    LET r1 == [r EXCEPT !.live = @ \ {r.stack}, !.stack = None, !.session = None] IN
    IF r.action = "rebuild" THEN OpenSession(r1) ELSE Ends(r1, "returned")

\* open(): run_streamablehttp_client calls it once, on the new object.
Open ==
    /\ rs.pc = "new"
    /\ rs' = (LET r == [rs EXCEPT !.action = "open"] IN
              IF r.session = None THEN OpenSession(r) ELSE Ends(r, "returned"))
    /\ UNCHANGED <<proxyVars, cli, mgr, servers, load, http>>

\* rebuild() (called by the handlers of the proxy) or close() (called when
\* the proxy stops) takes the lock and starts _close_locked.
CloseOrRebuild(action) ==
    /\ rs.pc = "idle"
    /\ action = "rebuild" => rs.opened < MaxTransports
    /\ rs' = (LET r == [rs EXCEPT !.action = action] IN
              IF r.stack # None THEN [r EXCEPT !.pc = "closing"] ELSE CloseLocked(r))
    /\ UNCHANGED <<proxyVars, cli, mgr, servers, load, http>>

\* await self._stack.aclose() returns.
CloseLockedReturns ==
    /\ rs.pc = "closing"
    /\ rs' = CloseLocked(rs)
    /\ UNCHANGED <<proxyVars, cli, mgr, servers, load, http>>

\* aclose() raises (an exit callback raised, or the caller's cancellation was
\* delivered in it): AsyncExitStack has run every exit callback all the same,
\* the two assignments after the try block are skipped.
CloseLockedRaises ==
    /\ rs.pc = "closing"
    /\ rs' = Ends([rs EXCEPT !.live = @ \ {rs.stack}], "raised")
    /\ UNCHANGED <<proxyVars, cli, mgr, servers, load, http>>

\* stack.enter_async_context(streamablehttp_client(...)) returns the streams.
TransportEntered ==
    /\ rs.pc = "enter_transport"
    /\ rs' = [rs EXCEPT !.pc = "enter_session", !.live = @ \cup {rs.opening}]
    /\ UNCHANGED <<proxyVars, cli, mgr, servers, load, http>>

\* Entering the transport raises, or one of the wait_for around it times out
\* and cancels it: nothing was entered.
TransportFails ==
    /\ rs.pc = "enter_transport"
    /\ rs' = Ends(rs, "raised")
    /\ UNCHANGED <<proxyVars, cli, mgr, servers, load, http>>

\* stack.enter_async_context(ClientSession(read, write)) returns: the stack
\* and the session are stored.
ClientSessionEntered ==
    /\ rs.pc = "enter_session"
    /\ rs' = Ends([rs EXCEPT !.stack = rs.opening, !.session = rs.opening], "returned")
    /\ UNCHANGED <<proxyVars, cli, mgr, servers, load, http>>

\* Entering the ClientSession raises, or a wait_for around it (the one of
\* _open_session, of rebuild, or of the handler that called rebuild) times
\* out: the exception leaves _open_session, whose local stack, the transport
\* entered on it, is neither closed nor stored.
ClientSessionFails ==
    /\ rs.pc = "enter_session"
    /\ rs' = Ends(rs, "raised")
    /\ UNCHANGED <<proxyVars, cli, mgr, servers, load, http>>

\* The interpreter may finalise the context manager of a transport that no
\* stack refers to any more; nothing in the program makes it do so.
StackCollected(t) ==
    /\ rs.pc # "off"
    /\ t \in rs.live /\ t # rs.stack /\ t # rs.opening
    /\ rs' = [rs EXCEPT !.live = @ \ {t}]
    /\ UNCHANGED <<proxyVars, cli, mgr, servers, load, http>>

InitSession ==
    /\ rs = NewSession
    /\ cli = [pc |-> "off"] /\ mgr = [pc |-> "off"] /\ servers = <<>>
    /\ LoaderOff
    /\ HttpOff
    /\ ProxyOff

NextSession ==
    \/ Open
    \/ \E action \in {"rebuild", "close"} : CloseOrRebuild(action)
    \/ CloseLockedReturns
    \/ CloseLockedRaises
    \/ TransportEntered
    \/ TransportFails
    \/ ClientSessionEntered
    \/ ClientSessionFails
    \/ \E t \in 1..MaxTransports : StackCollected(t)

SpecSession == InitSession /\ [][NextSession]_vars

-----------------------------------------------------------------------------
(* The retry budget *)

\* C1: whatever the backend does, a request invokes the backend operation at
\* most 1 + max(0, retry_attempts) times.
C1_AttemptsBounded ==
    \A p \in Ops : ops[p].calls <= MaxAttempts

\* A request that used its whole budget of three invocations and failed.
C1_Witness ==
    \E p \in Ops :
        /\ cfg.retry_attempts = 2
        /\ ops[p].pc = "done"
        /\ ops[p].calls = 3
        /\ ops[p].outcome \in {"raised", "synthetic"}

-----------------------------------------------------------------------------
(* What the caller of a finished request gets *)

Finished(o) == o.pc = "done" /\ o.outcome # "cancelled"

\* C2: unless its caller cancels it, call_tool ends with the backend's result
\* or with an is_error result made of the exception's text, never with an
\* exception and never without a result; a non-tool request ends with a
\* result or raises, and once its attempts are used up what it raises is the
\* exception of the last attempt.
C2_ToolNeverRaises ==
    \A p \in Ops :
        LET o == ops[p] IN
        /\ (o.pc = "done" /\ o.outcome = "cancelled") => o.cancel_req
        /\ (Finished(o) /\ o.kind = "tool") =>
              /\ o.outcome \in {"result", "synthetic"}
              /\ o.outcome = "result" => o.res \in ResultMenu
              /\ o.outcome = "synthetic" => o.raised # NoErr
        /\ (Finished(o) /\ o.kind = "other") =>
              /\ o.outcome \in {"result", "raised"}
              /\ o.outcome = "raised" => o.raised # NoErr
        /\ (Finished(o) /\ o.outcome # "result" /\ o.calls = MaxAttempts) =>
              o.raised = o.err

\* call_tool with a retry budget of zero, ended by an HTTP 500.
C2_Witness ==
    \E p \in Ops :
        /\ cfg.retry_attempts = 0
        /\ ops[p].kind = "tool"
        /\ ops[p].pc = "done"
        /\ ops[p].outcome = "synthetic"
        /\ ops[p].raised = Http(500, {})

-----------------------------------------------------------------------------
(* Which failures are retried *)

\* The step of request o -> n in which an attempt ended with an exception
\* (n.err): the call raised, or the deadline or the error queue ended it.
Failed(o, n) ==
    /\ o.pc \in {"calling", "cancelling"}
    /\ n.pc \in {"recover", "done"}
    /\ n.pc = "done" => n.outcome \in {"raised", "synthetic"}
    /\ n.pc = "recover" => n.cause # "result"

\* The step in which call_tool got a session-loss result and retries.
FailedByResult(o, n) ==
    o.pc = "calling" /\ n.pc = "recover" /\ n.cause = "result"

\* budget remains for one more attempt
Budget(o) == o.attempts + 1 < MaxAttempts

\* The session-loss markers, as the claims word them.
MarkedLeaf(x) ==
    \/ x.cls = "McpError" /\ x.code = SessionNotFoundCode
    \/ x.cls = "McpError" /\ x.code = SessionTerminatedCode
                          /\ "Session terminated" \in x.text
    \/ "Session not found" \in x.text
    \/ "-32001" \in x.text
    \/ "Session terminated" \in x.text

\* a marker on the exception, in its cause / context chain, or on a member of
\* the group
RECURSIVE CarriesMarker(_)
CarriesMarker(e) ==
    \/ e.cls # "ExceptionGroup" /\ MarkedLeaf(e)
    \/ \E i \in 1..Len(e.children) : CarriesMarker(e.children[i])

RECURSIVE CarriesRetryableStatus(_)
CarriesRetryableStatus(e) ==
    \/ e.cls = "HTTPStatusError" /\ (e.status \in 400..499 \/ e.status = 503)
    \/ \E i \in 1..Len(e.children) : CarriesRetryableStatus(e.children[i])

\* The exceptions the session-error branch of the handler gets: no
\* HTTPStatusError, no timeout or network error and, in call_tool, nothing
\* that wraps a retryable HTTP status.
ReachesSessionBranch(kind, e) ==
    /\ e.cls # "HTTPStatusError"
    /\ ~IsTimeoutClass(e)
    /\ kind = "tool" => ~CarriesRetryableStatus(e)

SameCounts(o, n) ==
    n.calls = o.calls /\ n.inits = o.inits /\ n.rebuilds = o.rebuilds

\* What follows a recovery by initialize: nothing but the sleep and the next
\* attempt, unless initialize raises or the caller cancels.
ReissuedOnce(o, n) ==
    /\ (o.pc = "recover" /\ o.cause \in {"session", "result"}) =>
          \/ n = o
          \/ n.pc = "sleep" /\ SameCounts(o, n)
          \/ n.pc = "done" /\ n.outcome \in {"raised", "synthetic", "cancelled"}
                           /\ SameCounts(o, n)
    /\ o.pc = "sleep" =>
          \/ n = o
          \/ n.pc = "acquire" /\ SameCounts(o, n)
          \/ n.pc = "done" /\ n.outcome = "cancelled" /\ SameCounts(o, n)
    /\ o.pc = "acquire" =>
          \/ n = o
          \/ n.pc = "calling" /\ n.calls = o.calls + 1
                              /\ n.inits = o.inits /\ n.rebuilds = o.rebuilds
          \/ n.pc = "done" /\ n.outcome = "cancelled" /\ SameCounts(o, n)

NoRetryAsStated(e) ==
    \/ e.cls = "HTTPStatusError" /\ e.status >= 500 /\ e.status # 503
    \/ ~CarriesRetryableStatus(e) /\ ~CarriesMarker(e)

\* The attempt's exception ends the request: no recovery, no further attempt.
EndsRequest(o, n) ==
    /\ n.pc = "done"
    /\ n.outcome = IF o.kind = "tool" THEN "synthetic" ELSE "raised"
    /\ n.raised = n.err
    /\ SameCounts(o, n)
    /\ o.attempts = 0 => (n.calls = 1 /\ n.inits = 0 /\ n.rebuilds = 0)

\* C4 as stated: those failures are never retried.
C4_AsStated ==
    [][\A p \in Ops :
         (Failed(ops[p], ops'[p]) /\ NoRetryAsStated(ops'[p].err)) =>
             EndsRequest(ops[p], ops'[p])
    ]_vars

\* C4: HTTP 500 and the other 5xx but 503, and the exceptions that are no
\* timeout or network error and carry no retryable status and no session-loss
\* marker, are never retried: the exception ends the request (raised, or as
\* the is_error result of call_tool), nothing is initialized or rebuilt, and
\* a finished request takes no further step.
C4_NonRetryablePropagates ==
    [][\A p \in Ops :
         /\ (/\ Failed(ops[p], ops'[p])
             /\ NoRetryAsStated(ops'[p].err)
             /\ ~IsTimeoutClass(ops'[p].err)) =>
                 EndsRequest(ops[p], ops'[p])
         /\ ops[p].pc = "done" => ops'[p] = ops[p]
    ]_vars

\* A non-tool request with two retries allowed, ended by the HTTP 502 of its
\* first attempt.
C4_Witness ==
    \E p \in Ops :
        /\ cfg.retry_attempts = 2
        /\ ops[p].kind = "other"
        /\ ops[p].pc = "done"
        /\ ops[p].outcome = "raised"
        /\ ops[p].raised = Http(502, {})
        /\ ops[p].calls = 1

-----------------------------------------------------------------------------
(* The per-call deadline and the error queue *)

\* the request's call task has finished whenever the request is past the call
TaskAwaited ==
    \A p \in Ops :
        ops[p].pc \in {"idle", "acquire", "recover", "sleep", "done"} =>
            ops[p].task = "none"

\* The exception e ends the attempt of o as the except clauses of a timeout do.
HandledAsTimeout(o, n, e) ==
    /\ n.task = "none"
    /\ n.err = e
    /\ n.attempts = o.attempts + 1
    /\ SameCounts([o EXCEPT !.inits = n.inits, !.rebuilds = n.rebuilds], n)
    /\ IF Budget(o)
       THEN /\ n.pc = "recover" /\ n.cause = "timeout"
            /\ IF cfg.has_rebuild
               THEN n.rec = "rebuild" /\ n.rebuilds = o.rebuilds + 1 /\ n.inits = o.inits
               ELSE n.rec = "init" /\ n.inits = o.inits + 1 /\ n.rebuilds = o.rebuilds
       ELSE /\ n.pc = "done" /\ n.raised = e
            /\ n.outcome = IF o.kind = "tool" THEN "synthetic" ELSE "raised"
            /\ n.inits = o.inits /\ n.rebuilds = o.rebuilds

\* C5: when the deadline fires on a running call, the call task is cancelled
\* and has finished before the request recovers, sleeps or starts another
\* attempt; the attempt then ends as a timeout: with budget left the session
\* is recovered (rebuild where the session can, else initialize), then the
\* request sleeps its backoff and calls again; without budget the
\* TimeoutError is what the caller gets.
C5_DeadlineCancelsThenRetries ==
    /\ []TaskAwaited
    /\ [][\A p \in Ops :
            LET o == ops[p]
                n == ops'[p]
            IN
            /\ (o.pc = "calling" /\ n.pc = "cancelling" /\ n.why = "timeout") =>
                  n.task = "cancelling" /\ SameCounts(o, n) /\ n.attempts = o.attempts
            /\ (o.pc = "cancelling" /\ o.why = "timeout" /\ n.pc # "cancelling") =>
                  HandledAsTimeout(o, n, CallTimeoutError)
            /\ (o.pc = "recover" /\ o.cause = "timeout" /\ n.pc \notin {"recover", "done"}) =>
                  n.pc = "sleep" /\ n.sleep_s = o.backoff_s /\ SameCounts(o, n)
       ]_vars

\* call_tool calling again after the deadline ended its first attempt and the
\* transport was rebuilt.
C5_Witness ==
    \E p \in Ops :
        /\ ops[p].kind = "tool"
        /\ ops[p].pc = "calling"
        /\ ops[p].calls = 2
        /\ ops[p].rebuilds = 1
        /\ ops[p].err = CallTimeoutError

\* C6: an error on the queue can always end a running call (the call need
\* not return); the call task is then cancelled and awaited and the queued
\* error is the exception of the attempt: with a retryable status and budget
\* left the session is recovered for another attempt, otherwise the error is
\* what the caller gets.
C6_QueuedErrorAbortsCall ==
    /\ [](\A p \in Ops :
            (ops[p].pc = "calling" /\ error_queue # <<>>) => ENABLED QueueFires(p))
    /\ [][\A p \in Ops :
            LET o == ops[p]
                n == ops'[p]
                status == o.qerr.status
            IN
            /\ (o.pc = "calling" /\ n.pc = "cancelling" /\ n.why = "queue") =>
                  /\ error_queue # <<>>
                  /\ n.qerr.cls = "HTTPStatusError"
                  /\ n.qerr.status = Head(error_queue)
                  /\ error_queue' = Tail(error_queue)
                  /\ n.task = "cancelling" /\ SameCounts(o, n)
            /\ (o.pc = "cancelling" /\ o.why = "queue" /\ n.pc # "cancelling") =>
                  /\ n.task = "none"
                  /\ n.err = o.qerr
                  /\ IF (status \in 400..499 \/ status = 503) /\ Budget(o)
                     THEN n.pc = "recover" /\ n.cause = "status" /\ n.st = status
                     ELSE n.pc = "done" /\ n.raised = o.qerr
       ]_vars

\* A non-tool request calling again after a queued HTTP 503 ended its first
\* attempt.
C6_Witness ==
    \E p \in Ops :
        /\ ops[p].kind = "other"
        /\ ops[p].pc = "calling"
        /\ ops[p].calls = 2
        /\ ops[p].inits = 1
        /\ ops[p].err = Http(503, {"Retryable HTTP status"})

-----------------------------------------------------------------------------
(* The inflight gate and the recovery between attempts *)

\* the backend invocations in progress on the session: attempts of requests
\* (with the call tasks cancelled callers left behind), recoveries, progress
\* notifications
RemoteCallsInProgress ==
    Cardinality({p \in Ops : CallRunning(ops[p])})
    + Cardinality({p \in Ops : Recovering(ops[p])})
    + orphans.calls
    + progress

\* C7 as stated: never more than max_inflight backend invocations are in
\* progress on the session - attempts, the initialize or rebuild between
\* attempts, progress notifications.
C7_AsStated == RemoteCallsInProgress <= cfg.max_inflight

\* With max_inflight = 1: one request re-initializes the session while the
\* attempt of another holds the only unit.
C7_Witness ==
    /\ cfg.max_inflight = 1
    /\ sem_value = 0
    /\ progress = 0
    /\ orphans.calls = 0
    /\ \E p, q \in Ops :
          /\ ops[p].pc = "recover" /\ ops[p].rec = "init"
          /\ ops[q].pc = "calling"

\* C8 as stated: every attempt after the first follows exactly one
\* initialize, so a request at its k-th attempt has issued k - 1 initialize
\* calls, and no attempt is issued on a transport on which initialize has not
\* completed.
C8_AsStated ==
    \A p \in Ops :
        ops[p].pc = "calling" =>
            /\ ops[p].inits = ops[p].calls - 1
            /\ ~ops[p].fresh

\* A request finished by the result of a second attempt that was issued on
\* the rebuilt transport with no initialize at all.
C8_Witness ==
    \E p \in Ops :
        /\ ops[p].pc = "done"
        /\ ops[p].outcome = "result"
        /\ ops[p].calls = 2
        /\ ops[p].rebuilds = 1
        /\ ops[p].inits = 0
        /\ ops[p].fresh

-----------------------------------------------------------------------------
(* Cancellation by the caller *)

\* C9 as stated: once the caller has cancelled a proxied request or a
\* client's connection attempt, it ends cancelled: nothing is issued for it
\* any more.
C9_AsStated ==
    /\ \A p \in Ops :
          ops[p].cancel_req => (ops[p].pc = "done" /\ ops[p].outcome = "cancelled")
    /\ cli.pc # "off" =>
          (cli.cancel_req => (cli.pc = "done" /\ cli.outcome = "cancelled"))

\* run_streamablehttp_client serving on a second transport, opened after the
\* caller cancelled the first attempt.
C9_Witness ==
    /\ cli.pc = "serving"
    /\ cli.kind = "http"
    /\ cli.cancel_req
    /\ cli.opens = 2

-----------------------------------------------------------------------------
(* The rows of the server manager *)

\* C10 as stated: a row has a session exactly when its status is CONNECTED.
C10_AsStated ==
    \A n \in DOMAIN servers :
        servers[n].session <=> servers[n].status = "CONNECTED"

\* After stop(): a row left CONNECTING with a session by a connect task that
\* the start deadline cancelled.
C10_Witness ==
    /\ mgr.pc = "stopped"
    /\ \E n \in DOMAIN servers :
          /\ servers[n].task = "cancelled"
          /\ servers[n].status = "CONNECTING"
          /\ servers[n].session

-----------------------------------------------------------------------------
(* The pool and the aggregated catalogue *)

\* Backend n has an entry in the aggregated listing of kind k.
Listed(n, k) ==
    \E i \in 1..Len(GetAggregated(k).list) : GetAggregated(k).list[i].description[1] = n

\* C11: a backend whose status is not CONNECTED has no entry in any
\* aggregated listing and no request is routed to it, whatever identifier is
\* asked for, while its row stays in the pool.
C11_InactiveInvisible ==
    /\ [](\A n \in DOMAIN servers :
            servers[n].status # "CONNECTED" =>
                /\ GetServerByName(n) = <<servers[n]>>
                /\ \A k \in Kinds :
                      /\ ~Listed(n, k)
                      /\ \A id \in IdMenu(k) : Route(k, id).server # n)
    /\ [][\A n \in DOMAIN servers : n \in DOMAIN servers']_vars

\* The first backend failed to connect with its lists already loaded, the
\* second one is connected: x is listed once, by the second, and routed to it.
C11_Witness ==
    /\ mgr.pc = "running"
    /\ 1 \in DOMAIN servers /\ 2 \in DOMAIN servers
    /\ servers[1].status = "FAILED" /\ servers[1].tools
    /\ servers[2].status = "CONNECTED" /\ servers[2].tools
    /\ ~mgr.default_namespace
    /\ Listed(2, "tools") /\ ~Listed(1, "tools")
    /\ Route("tools", <<"x">>) = [found |-> TRUE, server |-> 2, local |-> <<"x">>]

-----------------------------------------------------------------------------
(* Health probes and failover *)

\* The step in which the probe of backend n fails and its failure counter
\* reaches failover.max_failures.
ProbeFailsAtThreshold(n) ==
    /\ mgr.health = "probing" /\ mgr.at = n
    /\ servers'[n].failure_count = servers[n].failure_count + 1
    /\ servers'[n].failure_count >= mgr.max_failures

\* C12 as stated: when the probes of a CONNECTED backend have failed
\* max_failures times its status becomes FAILED and stays FAILED (nothing
\* reconnects it), its session is null, its lists are empty and it is not
\* among the active backends.
C12_AsStated ==
    [][\A n \in DOMAIN servers :
         /\ ProbeFailsAtThreshold(n) =>
               /\ servers'[n].status = "FAILED"
               /\ ~servers'[n].session
               /\ ~servers'[n].tools
         /\ (servers[n].status = "FAILED" /\ servers[n].task = "finished") =>
               servers'[n].status = "FAILED"
    ]_vars

\* The first backend was taken out by the health check: its session is null
\* and its lists are empty, x falls through to the second backend, and its
\* status is DISCONNECTED.
C12_Witness ==
    /\ mgr.pc = "running"
    /\ 1 \in DOMAIN servers /\ 2 \in DOMAIN servers
    /\ servers[1].failure_count = mgr.max_failures
    /\ servers[1].status = "DISCONNECTED"
    /\ ~servers[1].session /\ ~servers[1].tools
    /\ ~mgr.default_namespace
    /\ Route("tools", <<"x">>).server = 2

\* C13 as stated: a probe that passes resets the failure counter, so the
\* counter of a backend that connected is the number of probe failures since
\* the last probe that passed, and a backend is taken out by the health
\* check only after max_failures failures in a row.
C13_AsStated ==
    \A n \in DOMAIN servers :
        /\ servers[n].status \in {"CONNECTED", "DISCONNECTED"} =>
              servers[n].failure_count = servers[n].streak
        /\ servers[n].status = "DISCONNECTED" =>
              servers[n].streak >= mgr.max_failures

\* With max_failures = 2: a probe failed, a later probe passed, the next
\* one failed, and the backend was taken out after one failure in a row.
C13_Witness ==
    /\ mgr.pc = "running"
    /\ mgr.max_failures = 2
    /\ \E n \in DOMAIN servers :
          /\ servers[n].status = "DISCONNECTED"
          /\ servers[n].failure_count = 2
          /\ servers[n].streak = 1

\* C14 as stated: with the manager's tasks scheduled fairly, a backend that
\* left CONNECTED by a failover is connected again in the end, unless the
\* manager is stopped (once it is out, nothing fails for it any more: it is
\* as reachable as can be).
C14_AsStated ==
    \A n \in Names :
        (n \in DOMAIN servers /\ servers[n].status = "DISCONNECTED")
            ~> (mgr.shutdown \/ (n \in DOMAIN servers /\ servers[n].status = "CONNECTED"))

\* The health-check loop has gone through the whole pool once more and
\* sleeps, and the backend it took out is still out.
C14_Witness ==
    /\ mgr.pc = "running" /\ ~mgr.shutdown
    /\ mgr.health = "sleep"
    /\ \E n \in DOMAIN servers :
          /\ servers[n].status = "DISCONNECTED"
          /\ servers[n].task = "finished"
          /\ servers[n].streak = 1

-----------------------------------------------------------------------------
(* start() and stop() *)

\* C15 as stated: the start deadline cancels no connect task: when start()
\* goes on, every connect task is still running or has finished by itself.
C15_AsStated ==
    /\ \A n \in DOMAIN servers : servers[n].task # "cancelled"
    /\ mgr.pc = "init" \/ mgr.enabled = DOMAIN servers

\* start() has returned after its deadline: a backend that was still opening
\* its transport is left CONNECTING, its connect task cancelled.
C15_Witness ==
    /\ mgr.pc = "running"
    /\ \E n \in DOMAIN servers :
          /\ servers[n].task = "cancelled"
          /\ servers[n].status = "CONNECTING"
          /\ ~servers[n].session

\* The step in which the connect task of backend n ends without having made
\* the backend CONNECTED: the connection failed or its timeout expired.
ConnectEndsInFailure(n) ==
    /\ TaskRunning(servers[n])
    /\ servers'[n].task = "finished"
    /\ ~(servers[n].task = "loading" /\ servers'[n].status = "CONNECTED")

\* C16: start() always gets past its wait, whatever the connect tasks did; a
\* backend whose connect failed or timed out is FAILED with a null session,
\* its failure counter incremented and the error recorded; and when start()
\* returns every backend whose connect succeeded is CONNECTED, has its
\* session and is among the active backends.
C16_StartSurvivesFailures ==
    /\ [](mgr.pc = "waiting" => ENABLED (StartConnected \/ StartTimesOut))
    /\ [][\A n \in DOMAIN servers :
            ConnectEndsInFailure(n) =>
                /\ servers'[n].status = "FAILED"
                /\ ~servers'[n].session
                /\ servers'[n].failure_count = servers[n].failure_count + 1
                /\ servers'[n].last_error
                /\ mgr' = mgr
         ]_vars
    /\ [](mgr.pc = "running" /\ mgr.health \in {"none", "check"} /\ mgr.at = 1 =>
            \A n \in DOMAIN servers :
                (servers[n].task = "finished" /\ servers[n].failure_count = 0) =>
                    /\ servers[n].status = "CONNECTED"
                    /\ servers[n].session
                    /\ \E i \in 1..Len(GetActiveServers) : GetActiveServers[i] = n)

\* start() has returned: the first backend failed to connect, the second is
\* connected with its lists loaded and is the only active one.
C16_Witness ==
    /\ mgr.pc = "running"
    /\ 1 \in DOMAIN servers /\ 2 \in DOMAIN servers
    /\ servers[1].task = "finished" /\ servers[1].status = "FAILED"
    /\ ~servers[1].session /\ servers[1].failure_count = 1 /\ servers[1].last_error
    /\ servers[2].task = "finished" /\ servers[2].status = "CONNECTED"
    /\ servers[2].tools /\ ~servers[2].last_error
    /\ GetActiveServers = <<2>>

\* C17: stop() sets the shutdown flag and ends the health-check task before
\* it closes the context stack; however that closing ends (it returns, it
\* raises, it runs into its timeout) stop() returns; and from the moment the
\* health-check task was ended no probe is in progress or started.
C17_StopNeverRaises ==
    /\ [](mgr.pc \in {"init", "waiting", "running", "closing", "stopped"})
    /\ [](mgr.pc \in {"closing", "stopped"} =>
            /\ mgr.shutdown
            /\ mgr.health \in {"none", "ended"}
            /\ ~ENABLED HealthCheckProbes)
    /\ [](mgr.pc = "stopped" => mgr.close \in CloseOutcomes)
    /\ [][mgr.pc = "closing" => mgr'.pc = "stopped"]_vars

\* stop() has returned although the closing of the context stack ran into
\* its timeout; the health-check task it cancelled had reached a connected
\* backend on its way through the pool.
C17_Witness ==
    /\ mgr.pc = "stopped"
    /\ mgr.close = "timeout"
    /\ mgr.failover /\ mgr.health = "ended"
    /\ mgr.at \in DOMAIN servers
    /\ servers[mgr.at].status = "CONNECTED"

-----------------------------------------------------------------------------
(* The identifiers of the aggregated listings *)

\* ns(B, k) as the claims word it: the explicit override if set, else the
\* name of B if default_namespace, else empty.
NsAsStated(n, k) ==
    IF mgr.config[n].namespace[k] # <<>> THEN mgr.config[n].namespace[k]
    ELSE IF mgr.default_namespace THEN <<ServerNames[n]>>
    ELSE <<>>

\* ns(B,k) + sep(k) + x, and x verbatim when ns(B,k) is empty.
IdAsStated(n, k, x) ==
    IF NsAsStated(n, k) = <<>> THEN x
    ELSE IF k = "resources" THEN NsAsStated(n, k) \o <<":", "/", "/">> \o x
    ELSE NsAsStated(n, k) \o <<".">> \o x

\* The entries of the listing of kind k that come from backend n.
Contributed(n, k) ==
    {e \in {GetAggregated(k).list[i] : i \in 1..Len(GetAggregated(k).list)} :
        e.description[1] = n}

\* C18: in a listing that does not fail, the entries of an active backend B
\* are entries of B's catalogue under the identifier ns(B,k) + sep(k) + x
\* with description and schema unchanged, no two of them share a catalogue
\* entry, and a catalogue entry of B is missing only when its identifier is
\* in the listing already, exposed by another backend.
C18_IdentifiersNamespaced ==
    \A k \in Kinds :
        ~GetAggregated(k).raised =>
            \A n \in DOMAIN servers :
                servers[n].status = "CONNECTED" =>
                    /\ \A e \in Contributed(n, k) :
                          \E i \in 1..Len(ServerList(n, k)) :
                              /\ e.name = IdAsStated(n, k, ServerList(n, k)[i].name)
                              /\ e.description = ServerList(n, k)[i].description
                              /\ e.schema = ServerList(n, k)[i].schema
                    /\ \A i \in 1..Len(ServerList(n, k)) :
                          \/ \E e \in Contributed(n, k) :
                                /\ e.name = IdAsStated(n, k, ServerList(n, k)[i].name)
                                /\ e.description = ServerList(n, k)[i].description
                          \/ \E m \in DOMAIN servers \ {n} : \E e \in Contributed(m, k) :
                                e.name = IdAsStated(n, k, ServerList(n, k)[i].name)

\* Policy "first", both backends active: the first is exposed under its
\* name, a://x and a://y, the second has the override a and lists x too, so
\* that its a://x is suppressed.
C18_Witness ==
    /\ mgr.pc = "running"
    /\ mgr.conflict_resolution = "first"
    /\ GetActiveServers = <<1, 2>>
    /\ Len(GetAggregated("resources").list) = 2
    /\ Len(Visit(SortedByPriority(GetActiveServers), "resources")) = 3
    /\ \E e \in Contributed(1, "resources") : e.name = <<"a", ":", "/", "/", "x">>
    /\ \E e \in Contributed(1, "resources") : e.name = <<"a", ":", "/", "/", "y">>
    /\ Contributed(2, "resources") = {}

\* C19 as stated: under the policies priority, namespace and first no
\* aggregated listing holds the same identifier twice (the entry of the
\* backend visited first wins, the later one is skipped).
C19_AsStated ==
    mgr.conflict_resolution \in {"priority", "namespace", "first"} =>
        \A k \in Kinds :
            \A i, j \in 1..Len(GetAggregated(k).list) :
                GetAggregated(k).list[i].name = GetAggregated(k).list[j].name => i = j

\* Policy "priority", no namespaces, both backends list the tool x: the
\* listing holds x twice, once from each backend.
C19_Witness ==
    /\ mgr.pc = "running"
    /\ mgr.conflict_resolution = "priority"
    /\ ~mgr.default_namespace
    /\ GetActiveServers = <<1, 2>>
    /\ Len(GetAggregated("tools").list) = 2
    /\ GetAggregated("tools").list[1].name = <<"x">>
    /\ GetAggregated("tools").list[2].name = <<"x">>
    /\ GetAggregated("tools").list[1].description # GetAggregated("tools").list[2].description

\* The identifiers two different active backends both expose for kind k.
Collisions(k) ==
    {id \in IdMenu(k) :
        \E n, m \in DOMAIN servers :
            /\ n # m
            /\ servers[n].status = "CONNECTED" /\ servers[m].status = "CONNECTED"
            /\ \E i \in 1..Len(ServerList(n, k)) :
                  id = IdAsStated(n, k, ServerList(n, k)[i].name)
            /\ \E j \in 1..Len(ServerList(m, k)) :
                  id = IdAsStated(m, k, ServerList(m, k)[j].name)}

\* C20: under the policy "error" the listing of a kind fails exactly when two
\* active backends expose the same identifier for that kind, and the error
\* names such an identifier; otherwise the listing holds every entry of
\* every active backend, each once.
C20_ErrorPolicyIffCollision ==
    mgr.conflict_resolution = "error" =>
        \A k \in Kinds :
            /\ GetAggregated(k).raised <=> Collisions(k) # {}
            /\ GetAggregated(k).raised => GetAggregated(k).conflict \in Collisions(k)
            /\ ~GetAggregated(k).raised =>
                  /\ \A n \in DOMAIN servers :
                        servers[n].status = "CONNECTED" =>
                            Cardinality(Contributed(n, k)) = Len(ServerList(n, k))
                  /\ \A i, j \in 1..Len(GetAggregated(k).list) :
                        GetAggregated(k).list[i].name = GetAggregated(k).list[j].name
                            => i = j

\* Policy "error", backends under their names, the second with the tool
\* namespace a: listing the tools fails on a.x, listing the resources gives
\* the entries of both backends.
C20_Witness ==
    /\ mgr.pc = "running"
    /\ mgr.conflict_resolution = "error"
    /\ GetActiveServers = <<1, 2>>
    /\ GetAggregated("tools").raised
    /\ GetAggregated("tools").conflict = <<"a", ".", "x">>
    /\ ~GetAggregated("resources").raised
    /\ Contributed(1, "resources") # {}
    /\ Contributed(2, "resources") # {}

-----------------------------------------------------------------------------
(* Routing *)

\* The identifiers of the listing of kind k.
ListedIds(k) ==
    {GetAggregated(k).list[i].name : i \in 1..Len(GetAggregated(k).list)}

\* C21 as stated: every identifier of an aggregated listing is routed, to an
\* active backend that exposes it and whose catalogue holds the local
\* identifier the request is made with.
C21_AsStated ==
    \A k \in Kinds : \A id \in ListedIds(k) :
        /\ Route(k, id).found
        /\ Route(k, id).server \in DOMAIN servers
        /\ servers[Route(k, id).server].status = "CONNECTED"
        /\ \E i \in 1..Len(ServerList(Route(k, id).server, k)) :
              /\ ServerList(Route(k, id).server, k)[i].name = Route(k, id).local
              /\ IdAsStated(Route(k, id).server, k, Route(k, id).local) = id

\* One active backend without namespace lists the resource a://x: the
\* listing holds a://x, and reading a://x finds no backend.
C21_Witness ==
    /\ mgr.pc = "running"
    /\ ~mgr.default_namespace
    /\ <<"a", ":", "/", "/", "x">> \in ListedIds("resources")
    /\ ~Route("resources", <<"a", ":", "/", "/", "x">>).found
    /\ \A n \in DOMAIN servers : GetEffectiveNamespace(n, "resources") = <<>>

\* The active backends in ascending priority, ties in the order of their
\* names.
RECURSIVE ByPriorityThenName(_)
ByPriorityThenName(S) ==
    IF S = {} THEN <<>>
    ELSE LET m == CHOOSE x \in S : \A y \in S :
                     \/ mgr.config[x].priority < mgr.config[y].priority
                     \/ /\ mgr.config[x].priority = mgr.config[y].priority
                        /\ x <= y
         IN <<m>> \o ByPriorityThenName(S \ {m})

\* C22 as stated: the active backends come in ascending priority, ties by
\* name, and an identifier without separator is routed to the first backend
\* in that order whose catalogue holds it.
C22_AsStated ==
    LET order == ByPriorityThenName({n \in DOMAIN servers : servers[n].status = "CONNECTED"}) IN
    /\ GetActiveServers = order
    /\ \A k \in Kinds : \A t \in {"x", "y"} :
          LET owners == {i \in 1..Len(order) :
                            \E j \in 1..Len(ServerList(order[i], k)) :
                                ServerList(order[i], k)[j].name = <<t>>}
          IN owners # {} =>
                /\ Route(k, <<t>>).found
                /\ \E i \in owners :
                      /\ order[i] = Route(k, <<t>>).server
                      /\ \A h \in owners : i <= h

\* Backend a comes first in the configuration with the lower priority
\* (higher number), b second with the higher priority; both list the tool x
\* and x is routed to a.
C22_Witness ==
    /\ mgr.pc = "running"
    /\ GetActiveServers = <<1, 2>>
    /\ mgr.config[1].priority > mgr.config[2].priority
    /\ servers[1].tools /\ servers[2].tools
    /\ Route("tools", <<"x">>) = [found |-> TRUE, server |-> 1, local |-> <<"x">>]

\* C23 as stated: for every entry x of the catalogue of an active backend,
\* a request for ns + sep + x and a request for x are both routed, to a
\* backend whose catalogue holds x, and that backend is called with x.
C23_AsStated ==
    \A k \in Kinds : \A n \in DOMAIN servers :
        servers[n].status = "CONNECTED" =>
            \A i \in 1..Len(ServerList(n, k)) :
                LET x == ServerList(n, k)[i].name IN
                \A id \in {IdAsStated(n, k, x), x} :
                    /\ Route(k, id).found
                    /\ Route(k, id).local = x
                    /\ \E j \in 1..Len(ServerList(Route(k, id).server, k)) :
                          ServerList(Route(k, id).server, k)[j].name = x

\* The backend b, exposed under its name, lists the prompt a.x: the request
\* b.a.x is routed to b with a.x, the request a.x finds no backend.
C23_Witness ==
    /\ mgr.pc = "running"
    /\ mgr.default_namespace
    /\ GetActiveServers = <<2>>
    /\ GetEffectiveNamespace(2, "prompts") = <<"b">>
    /\ Route("prompts", <<"b", ".", "a", ".", "x">>)
          = [found |-> TRUE, server |-> 2, local |-> <<"a", ".", "x">>]
    /\ ~Route("prompts", <<"a", ".", "x">>).found

-----------------------------------------------------------------------------
(* The request handlers of the aggregated server *)

\* C24: no handler lets an exception out: a listing that fails is answered
\* with an empty list and one that succeeds with the aggregated entries; a
\* call, read or prompt request that fails in the routing or in the backend
\* is answered with a result that carries the error text, marked is_error
\* for tools, and one that succeeds with the backend's result.
C24_HandlersNeverRaise ==
    \A k \in Kinds :
        LET listing == GetAggregated(k)
            answer == ListHandler(k)
        IN
        /\ ~answer.escaped
        /\ listing.raised => answer.list = <<>>
        /\ ~listing.raised => answer.list = listing.list
        /\ \A id \in IdMenu(k) : \A outcome \in BackendOutcomes :
              LET route == Route(k, id)
                  reply == CallHandler(k, id, outcome)
              IN
              /\ ~reply.escaped
              /\ (~route.found \/ outcome = "raises") =>
                    /\ reply.text # ""
                    /\ reply.is_error <=> k = "tools"
              /\ (route.found /\ outcome = "returns") =>
                    /\ ~reply.is_error
                    /\ reply.server = route.server

\* Policy "error" and two backends that both list x: list_tools is answered
\* with an empty list; calling x reaches the first backend, whose exception
\* comes back as an is_error result, and calling a.y finds no backend.
C24_Witness ==
    /\ mgr.pc = "running"
    /\ mgr.conflict_resolution = "error"
    /\ GetActiveServers = <<1, 2>>
    /\ GetAggregated("tools").raised
    /\ GetAggregated("tools").conflict = <<"x">>
    /\ ListHandler("tools").list = <<>>
    /\ Route("tools", <<"x">>).found
    /\ CallHandler("tools", <<"x">>, "raises").is_error
    /\ ~Route("tools", <<"a", ".", "y">>).found
    /\ CallHandler("tools", <<"a", ".", "y">>, "returns").text = "No active server found"

-----------------------------------------------------------------------------
(* The connect loops of the transport clients *)

\* A ValueError "I/O operation on closed file", as the exception itself, in
\* its cause / context chain or among the members of its group.
RECURSIVE CarriesClosedFile(_)
CarriesClosedFile(e) ==
    \/ e.cls = "ValueError" /\ "I/O operation on closed file" \in e.text
    \/ \E i \in 1..Len(e.children) : CarriesClosedFile(e.children[i])

\* The attempt the client made last ended with an exception.
LastAttemptFailed == cli.pc # "off" /\ cli.err # NoErr

StdioClosed ==
    cli.kind = "http" /\ (cli.stdin_closed \/ CarriesClosedFile(cli.err))

C26_ClosedStdioCleanExit ==
    [][(cli.pc # "off" /\ cli.kind = "http") =>
        /\ (cli.pc = "loop" /\ cli.stdin_closed /\ cli' # cli) =>
              /\ cli'.pc = "done" /\ cli'.outcome = "returned"
              /\ cli'.opens = cli.opens
        /\ (cli.pc \in {"connect", "serving"} /\ cli'.err # NoErr
              /\ cli'.err.cls # "HTTPStatusError" /\ CarriesClosedFile(cli'.err)) =>
              /\ cli'.pc = "done" /\ cli'.outcome = "returned"
              /\ cli'.attempts = cli.attempts
    ]_vars

\* With two retries left and stdin open, the first attempt ended with an
\* exception group holding the closed-file error: the client has returned.
C26_Witness ==
    /\ cli.pc = "done" /\ cli.kind = "http"
    /\ cli.retry_attempts = 2 /\ ~cli.stdin_closed
    /\ cli.opens = 1 /\ cli.attempts = 0
    /\ cli.err = Group({"unhandled errors in a TaskGroup"}, <<ClosedFileError>>)
    /\ cli.outcome = "returned"

-----------------------------------------------------------------------------
(* The response hook of the HTTP client *)

\* C27: for every response status and in every state of the error queue,
\* the response hook raises if and only if the status is in [400,500) or is
\* 503; the error raised is an HTTPStatusError carrying that status, and it
\* has been put on the queue unless the queue was full; with any other
\* status the hook returns and the queue is as it was.
C27_HookRaisesIffRetryable ==
    cfg.has_queue =>
        \A status \in StatusMenu :
            LET r == LogResponse(status, error_queue)
                retryable == status \in 400..499 \/ status = 503
            IN /\ r.raises <=> retryable
               /\ retryable =>
                    /\ r.exc.cls = "HTTPStatusError" /\ r.exc.status = status
                    /\ r.queue = IF Len(error_queue) = QueueMax
                                 THEN error_queue
                                 ELSE error_queue \o <<status>>
               /\ ~retryable => (r.exc = NoErr /\ r.queue = error_queue)

\* The hook has put the error of a 503 on the queue, which is now full: the
\* error of the next response will be dropped.
C27_Witness ==
    /\ cfg.has_queue
    /\ error_queue # <<>>
    /\ error_queue[Len(error_queue)] = 503
    /\ Len(error_queue) = QueueMax

-----------------------------------------------------------------------------
(* The single-backend proxy with a backend that answers *)

\* The request has ended and nothing failed on its way: no attempt was
\* counted, no exception seen, no call task cancelled, no caller cancel.
AnsweredAtOnce(o) ==
    /\ o.pc = "done"
    /\ o.attempts = 0 /\ o.err = NoErr /\ o.why = "" /\ ~o.cancel_req

-----------------------------------------------------------------------------
(* Loading a configuration *)

\* An entry the loaders are to drop: no object, no non-empty command, or
\* args that are no list.
InvalidEntry(e) == ~e.object \/ e.command # "run" \/ e.args = "string"

\* C29 as stated: loading fails only for a missing or unreadable file, for
\* invalid JSON and for a missing mcpServers key; otherwise it returns,
\* every invalid entry dropped with a warning and every valid (enabled)
\* entry loaded.
C29_AsStated ==
    load.pc = "done" =>
        LET es == load.file.entries IN
        /\ load.outcome = "raised" <=>
              load.file.kind \in {"missing", "unreadable", "invalid_json", "not_dict", "no_key"}
        /\ load.outcome = "returned" =>
              \A i \in DOMAIN es :
                 /\ InvalidEntry(es[i]) => (i \notin load.kept /\ i \in load.warned)
                 /\ (~InvalidEntry(es[i]) /\ es[i].enabled) => i \in load.kept

\* The bridge loader, with jsonschema installed, was given a file whose
\* first entry is a string and whose second entry is valid: it raised
\* ValueError and loaded nothing.
C29_Witness ==
    /\ load.pc = "done" /\ load.loader = "bridge" /\ load.jsonschema
    /\ load.file.kind = "ok" /\ Len(load.file.entries) = 2
    /\ ~load.file.entries[1].object
    /\ load.file.entries[2] = ServerEntry(TRUE, TRUE, "run", "list", "absent")
    /\ load.outcome = "raised" /\ load.raised = "ValueError"
    /\ load.kept = {}

-----------------------------------------------------------------------------
(* Requests that run while the transport is rebuilt *)

\* The request ended without a result of the backend: an exception, or the
\* is_error result _call_tool makes of one.
EndsInError(o) == o.pc = "done" /\ o.outcome \in {"raised", "synthetic"}

\* C30 as stated: a request that is about to make its call while the
\* rebuild of another request has closed the old transport and not yet
\* opened the new one does not fail there: the step it takes (unless its
\* caller cancels it) does not end it in an error.
C30_AsStated ==
    [][\A p \in Ops :
          (/\ ops[p].pc = "acquire"
           /\ slot = "none"
           /\ \E q \in Ops \ {p} : ops[q].pc = "recover" /\ ops[q].rec = "rebuild"
           /\ ~ops'[p].cancel_req)
          => ~EndsInError(ops'[p])
    ]_vars

\* Request 1 is in rebuild(), the slot is empty; request 2 arrived, made no
\* attempt that was counted, and has ended in an error.
C30_Witness ==
    /\ Cardinality(Ops) >= 2
    /\ ops[1].pc = "recover" /\ ops[1].rec = "rebuild"
    /\ slot = "none"
    /\ EndsInError(ops[2]) /\ ops[2].attempts = 0 /\ ~ops[2].cancel_req
    /\ ops[2].kind = "other"

-----------------------------------------------------------------------------
(* The choice between rebuild and initialize *)

\* An HTTP 404 on the exception, in its chain or among the members of its group.
RECURSIVE Carries404(_)
Carries404(e) ==
    \/ e.cls = "HTTPStatusError" /\ e.status = 404
    \/ \E i \in 1..Len(e.children) : Carries404(e.children[i])

\* The recovery the step o -> n has entered is an initialize on the transport
\* in place, and no rebuild.
Reinitialises(o, n) ==
    /\ n.rec = "init"
    /\ n.inits = o.inits + 1
    /\ n.rebuilds = o.rebuilds

\* C31: whenever a failed attempt is followed by a recovery, (a) a rebuild is
\* entered only on a session that has rebuild(); (b) on a session without
\* it the recovery is an initialize; (c) after a session-loss result, after
\* a session-loss error and after a retryable HTTP status other than 404
\* the recovery is an initialize, never a rebuild.
C31_RebuildOnlyWhenOffered ==
    [][\A p \in Ops :
          LET o == ops[p]
              n == ops'[p]
          IN ((Failed(o, n) \/ FailedByResult(o, n)) /\ n.pc = "recover") =>
                /\ n.rec \in {"init", "rebuild"}
                /\ n.rec = "rebuild" => (cfg.has_rebuild /\ n.rebuilds = o.rebuilds + 1)
                /\ ~cfg.has_rebuild => Reinitialises(o, n)
                /\ FailedByResult(o, n) => Reinitialises(o, n)
                /\ (Failed(o, n) /\ ReachesSessionBranch(n.kind, n.err) /\ CarriesMarker(n.err))
                      => Reinitialises(o, n)
                /\ (Failed(o, n) /\ ~IsTimeoutClass(n.err) /\ ~Carries404(n.err)
                      /\ CarriesRetryableStatus(n.err))
                      => Reinitialises(o, n)
    ]_vars

\* On a session that has rebuild(), the first attempt failed with HTTP 503
\* and the request is in initialize; no rebuild was made.
C31_Witness ==
    \E p \in Ops :
        /\ cfg.has_rebuild
        /\ ops[p].pc = "recover" /\ ops[p].rec = "init"
        /\ ops[p].err = Http(503, {})
        /\ ops[p].inits = 1 /\ ops[p].rebuilds = 0

-----------------------------------------------------------------------------
(* A rebuild that does not finish in time *)

\* C32 as stated: when rebuild() is given up after its timeout, the
\* initialize that follows is issued on a session that is there; the request
\* does not end there, and from the fallback initialize it goes on to the
\* sleep and the next attempt unless initialize raises for a reason of the
\* backend (not for want of a session) or the caller cancels.
C32_AsStated ==
    [][\A p \in Ops :
          LET o == ops[p]
              n == ops'[p]
          IN /\ (o.pc = "recover" /\ o.rec = "rebuild" /\ n.rec = "fallback") =>
                    (n.pc = "recover" /\ n.inits = o.inits + 1 /\ slot' = "open")
             /\ (o.pc = "recover" /\ o.rec = "fallback" /\ n.pc = "done" /\ ~n.cancel_req) =>
                    n.raised # AttributeError
    ]_vars

\* The request got HTTP 404, rebuild() closed the transport and was given up;
\* the fallback initialize found no session and the request ended with its
\* AttributeError, after one call.
C32_Witness ==
    \E p \in Ops :
        /\ cfg.has_rebuild
        /\ slot = "none"
        /\ ops[p].pc = "done" /\ ops[p].outcome \in {"raised", "synthetic"}
        /\ ops[p].err = Http(404, {})
        /\ ops[p].raised = AttributeError
        /\ ops[p].rebuilds = 1 /\ ops[p].inits = 1 /\ ops[p].calls = 1

-----------------------------------------------------------------------------
(* An initialize that does not complete *)

\* C33 as stated: a request that has issued the initialize of a retry leaves
\* it in the end, whether or not the backend answers the initialize.
C33_AsStated ==
    \A p \in Ops :
        (ops[p].pc = "recover" /\ ops[p].rec \in {"init", "fallback"})
            ~> (ops[p].pc # "recover")

\* The request is in the initialize of its first retry, its attempt having
\* failed with HTTP 503.
C33_Witness ==
    \E p \in Ops :
        /\ ops[p].pc = "recover" /\ ops[p].rec = "init"
        /\ ops[p].err = Http(503, {})
        /\ ops[p].attempts = 1 /\ ops[p].inits = 1

-----------------------------------------------------------------------------
(* The delay before a retry *)

\* The delay the claim gives for the retry that follows the recovery of o
\* (tenths of a second).
DelayAsStated(o) ==
    IF o.cause = "status" /\ o.st = 404 THEN 0
    ELSE IF o.cause = "session" THEN 2
    ELSE o.backoff_s

\* C34 as stated: when a recovery has completed, the handler sleeps 0 after
\* an HTTP 404, 0.2 s after a session-loss error and the current backoff
\* otherwise, and the backoff is doubled up to 5 s; the backoff of a new
\* request is 0.5 s.
C34_AsStated ==
    /\ \A p \in Ops : ops[p].pc \in {"idle", "acquire"} /\ ops[p].attempts = 0
                          => ops[p].backoff_s = 5
    /\ [][\A p \in Ops :
            LET o == ops[p]
                n == ops'[p]
            IN (o.pc = "recover" /\ n.pc \in {"sleep", "acquire"}) =>
                  /\ n.pc = "sleep" => n.sleep_s = DelayAsStated(o)
                  /\ n.pc = "acquire" => DelayAsStated(o) = 0
                  /\ n.backoff_s = (IF 2 * o.backoff_s > 50 THEN 50 ELSE 2 * o.backoff_s)
       ]_vars

\* After HTTP 404 and a completed recovery the handler is asleep for 0.5 s,
\* its backoff still 0.5 s.
C34_Witness ==
    \E p \in Ops :
        /\ ops[p].pc = "sleep"
        /\ ops[p].err = Http(404, {})
        /\ ops[p].attempts = 1
        /\ ops[p].sleep_s = 5
        /\ ops[p].backoff_s = 5

-----------------------------------------------------------------------------
(* The clear-session flag of the HTTP client *)

\* C35: every response with status 404 leaves force_clear_session_id set;
\* once set it is unset only by a response that carries a session
\* identifier; a request sent while it is set goes out without an
\* mcp-session-id header; a request sent while it is not set goes out with
\* the header the transport gave it.
C35_ClearSessionFlag ==
    [][LET o == http
           n == http'
           flag == o.request_state.force_clear_session_id
           flagAfter == n.request_state.force_clear_session_id
           responded == Len(n.in_flight) < Len(o.in_flight)
           requested == Len(n.in_flight) > Len(o.in_flight)
           sent == n.in_flight[Len(n.in_flight)]
       IN o.pc = "on" =>
            /\ (responded /\ n.last.status = 404) => flagAfter = "True"
            /\ (flag = "True" /\ flagAfter # "True") =>
                   responded /\ n.last.session_id \in SessionIds
            /\ (requested /\ flag = "True") => sent.session_id = NoHeader
            /\ (requested /\ flag # "True") => sent.session_id = n.last.offered
      ]_vars

\* After a 404 of a POST, a request the transport gave the identifier s1 has
\* gone out without the header; s1 came with an earlier response.
C35_Witness ==
    /\ http.pc = "on"
    /\ http.last.hook = "request"
    /\ http.last.offered = "s1"
    /\ http.last.sent = NoHeader
    /\ http.request_state.force_clear_session_id = "True"
    /\ http.request_state.last_post_status = 404
    /\ http.request_state.last_session_id = "s1"

-----------------------------------------------------------------------------
(* The units of the inflight semaphore *)

\* the requests whose attempt is inside `async with semaphore`
InsideGate == {p \in Ops : ops[p].pc \in {"calling", "cancelling"}}

\* C36: the units taken are as many as the attempts inside the gate and
\* never more than max_inflight; a request that has left its attempt by any
\* path (answered, failed, timed out, aborted by a queued error, cancelled),
\* that recovers or sleeps for the backoff holds none; with no request in
\* progress every unit is available.
C36_UnitsConserved ==
    LET taken == cfg.max_inflight - sem_value IN
    /\ taken = Cardinality(InsideGate)
    /\ taken >= 0 /\ taken <= cfg.max_inflight
    /\ (\A p \in Ops : ops[p].pc \in {"idle", "done"}) => sem_value = cfg.max_inflight

\* With one unit, one request sleeps for its backoff after a failed attempt
\* while the other is in its call and holds the unit.
C36_Witness ==
    /\ cfg.max_inflight = 1
    /\ sem_value = 0
    /\ \E p, q \in Ops :
          /\ ops[p].pc = "sleep" /\ ops[p].attempts = 1
          /\ ops[q].pc = "calling"

-----------------------------------------------------------------------------
(* The transports a _ReconnectableSession has opened *)

\* C37 as stated: once close() is over no transport the object opened is
\* still open, and once a rebuild has returned the new session the only
\* open transport is the one of that session - whatever failed on the way.
C37_AsStated ==
    /\ rs.pc = "closed" => rs.live = {}
    /\ (rs.pc = "idle" /\ rs.last = [action |-> "rebuild", result |-> "returned"])
          => rs.live = {rs.stack}

\* close() has returned; the second transport, entered by a rebuild whose
\* ClientSession could not be entered, is still open.
C37_Witness ==
    /\ rs.pc = "closed"
    /\ rs.last = [action |-> "close", result |-> "returned"]
    /\ rs.opened = 2
    /\ rs.live = {2}

-----------------------------------------------------------------------------
(* Requests after a rebuild that failed *)

\* a rebuild has closed the transport and has ended without opening one:
\* the slot is empty and no request is in a recovery
RebuildGaveUp == slot = "none" /\ \A p \in Ops : ops[p].pc # "recover"

\* C38 as stated: a request that makes its call after a rebuild has failed
\* with the transport closed does not end in an error for want of a session
\* (it is served once some path has reopened the session).
C38_AsStated ==
    [][\A q \in Ops :
          (/\ RebuildGaveUp
           /\ ops[q].pc = "acquire"
           /\ ops'[q].pc = "done"
           /\ ~ops'[q].cancel_req) => ops'[q].outcome = "result"
      ]_vars

\* The rebuild of one request has failed with the slot left empty, and the
\* other request, not cancelled, has ended by an exception without a
\* backend call or a retry.
C38_Witness ==
    /\ RebuildGaveUp
    /\ \E p, q \in Ops :
          /\ ops[p].pc = "done" /\ ops[p].attempts = 1 /\ ops[p].outcome = "raised"
          /\ ops[q].pc = "done" /\ ops[q].attempts = 0 /\ ops[q].outcome = "raised"
          /\ ~ops[q].cancel_req

-----------------------------------------------------------------------------
(* Several calls on one error queue *)

\* the requests whose call is waiting beside the queue
InFlight == {p \in Ops : ops[p].pc = "calling"}

\* C39 as stated: a queued error is taken by one call, which it aborts; the
\* drain at the start of a call empties the queue; and that drain discards
\* nothing when another call is in flight, whose error it would be.
C39_AsStated ==
    [][\A q \in Ops :
          /\ (ops[q].pc = "calling" /\ ops'[q].pc = "cancelling" /\ ops'[q].why = "queue") =>
                /\ error_queue # <<>> /\ error_queue' = Tail(error_queue)
                /\ \A p \in Ops \ {q} : ops'[p] = ops[p]
          /\ (ops[q].pc = "acquire" /\ ops'[q].pc = "calling") =>
                /\ error_queue' = <<>>
                /\ InFlight # {} => error_queue = <<>>
      ]_vars

\* An error was enqueued while one call is in flight, and the other request
\* is about to enter the gate, where it drains the queue.
C39_Witness ==
    /\ cfg.has_queue
    /\ error_queue # <<>>
    /\ sem_value > 0
    /\ \E p, q \in Ops : ops[p].pc = "calling" /\ ops[q].pc = "acquire"

-----------------------------------------------------------------------------
(* call_tool beside the other operations *)

\* what a handler does next, and what it has counted, after a failed attempt
Reaction(o) ==
    [retries |-> o.pc = "recover", rec |-> o.rec, attempts |-> o.attempts,
     inits |-> o.inits, rebuilds |-> o.rebuilds]

\* C40 as stated: whatever a request has been through, the same failure of
\* its call gets the same reaction from _call_tool and from _call_remote:
\* both retry or both give up, by the same recovery primitive, with the same
\* counts of attempts, initialize and rebuild calls.
C40_AsStated ==
    \A p \in Ops : \A e \in ExcMenu :
        ops[p].pc = "calling" =>
            Reaction(Handle([ops[p] EXCEPT !.kind = "tool"], e))
              = Reaction(Handle([ops[p] EXCEPT !.kind = "other"], e))

\* call_tool is recovering for a retry after an exception group that wraps
\* an HTTP 503 and carries no session-loss marker.
C40_Witness ==
    \E p \in Ops :
        /\ ops[p].kind = "tool"
        /\ ops[p].pc = "recover" /\ ops[p].rec = "init"
        /\ ops[p].attempts = 1 /\ ops[p].calls = 1 /\ ops[p].inits = 1
        /\ ops[p].err = Group({"wrapped"}, <<Plain({"boom"}), Http(503, {})>>)

=============================================================================
